---- MODULE Spec2Model ----
(***************************************************************************)
(* The Structured Text validator of the validation panel                  *)
(* (performSTValidation) as a state machine.  A call waits on its initial *)
(* timer, then scans the lines of its input one forEach callback at a     *)
(* time, then finalises the report and returns it.                        *)
(*                                                                         *)
(* A JavaScript string is a sequence of one-character strings, so that    *)
(* trim, toUpperCase, includes, split and the regular expressions are     *)
(* computed on the characters as the engine computes them.                *)
(***************************************************************************)
EXTENDS Integers, Sequences, FiniteSets, TLC

VARIABLES pc, code, index, lines, results, inVarSection, inFunctionBlock,
          braceCount, declaredVariables, usedVariables

vars == <<pc, code, index, lines, results, inVarSection, inFunctionBlock,
          braceCount, declaredVariables, usedVariables>>

\* ------------------------------------------------------------------ bounds

\* Longest program, in lines, among the enumerated inputs.
MaxLines == 3

\* Validation calls in flight at the same time in the concurrent specification.
MaxCalls == 2

\* Most declaration lines of a program of the declaration specification.
MaxDecls == 2

\* ------------------------------------------------------ strings (ECMAScript)

Range(s) == {s[i] : i \in 1..Len(s)}

MinOf(S) == CHOOSE x \in S : \A y \in S : x <= y

MaxOf(S) == CHOOSE x \in S : \A y \in S : x >= y

LowerLetters == <<"a","b","c","d","e","f","g","h","i","j","k","l","m","n","o","p","q","r","s","t","u","v","w","x","y","z">>

UpperLetters == <<"A","B","C","D","E","F","G","H","I","J","K","L","M","N","O","P","Q","R","S","T","U","V","W","X","Y","Z">>

Digits == <<"0","1","2","3","4","5","6","7","8","9">>

LowerSet == Range(LowerLetters)

LetterSet == Range(LowerLetters) \cup Range(UpperLetters)

WordSet == LetterSet \cup Range(Digits) \cup {"_"}

\* The upper-case letter of each lower-case letter.
UpperOf == [ch \in LowerSet |-> UpperLetters[CHOOSE i \in 1..Len(LowerLetters) : LowerLetters[i] = ch]]

\* String.prototype.toUpperCase, one character.
toUpperCaseChar(ch) == IF ch \in LowerSet THEN UpperOf[ch] ELSE ch

toUpperCase(s) == [i \in 1..Len(s) |-> toUpperCaseChar(s[i])]

\* White space and line terminators, as trim() and \s see them (those that occur
\* in the inputs).
IsWhiteSpace(ch) == ch \in {" ", "\t", "\n", "\r"}

\* Line terminators, which the regular expression dot does not match.
IsLineTerminator(ch) == ch \in {"\n", "\r"}

\* \w
IsWordChar(ch) == ch \in WordSet

trim(s) ==
  LET keep == {i \in 1..Len(s) : ~IsWhiteSpace(s[i])}
  IN  IF keep = {} THEN <<>> ELSE SubSeq(s, MinOf(keep), MaxOf(keep))

includes(s, p) == \E i \in 1..(Len(s) - Len(p) + 1) : SubSeq(s, i, i + Len(p) - 1) = p

startsWith(s, p) == Len(s) >= Len(p) /\ SubSeq(s, 1, Len(p)) = p

endsWith(s, p) == Len(s) >= Len(p) /\ SubSeq(s, Len(s) - Len(p) + 1, Len(s)) = p

\* code.split('\n'): the pieces between the newlines, always at least one.
split(s) ==
  LET nl     == {i \in 1..Len(s) : s[i] = "\n"}
      at(k)  == CHOOSE i \in nl : Cardinality({j \in nl : j <= i}) = k
      from(k) == IF k = 1 THEN 1 ELSE at(k - 1) + 1
      to(k)   == IF k = Cardinality(nl) + 1 THEN Len(s) ELSE at(k) - 1
  IN  [k \in 1..(Cardinality(nl) + 1) |-> SubSeq(s, from(k), to(k))]

\* ------------------------------------------------------ regular expressions

\* The result of String.prototype.match: null, or the array of the match.
NoMatch == [found |-> FALSE, groups |-> <<>>]

Match(groups) == [found |-> TRUE, groups |-> groups]

\* A test that takes null for a match.
TruthyAlways(m) == TRUE

\* if (m): null is falsy, every array is truthy.
Truthy(m) == m.found

\* (m || []): the empty array in place of null.
OrEmpty(m) == IF Truthy(m) THEN m ELSE Match(<<>>)

\* Last index of the run of word characters starting at i (i - 1 when empty).
WordRunEnd(s, i) ==
  LET stops == {j \in i..Len(s) : ~IsWordChar(s[j])}
  IN  IF stops = {} THEN Len(s) ELSE MinOf(stops) - 1

\* Last index of the run of white space starting at i (i - 1 when empty).
SpaceRunEnd(s, i) ==
  LET stops == {j \in i..Len(s) : ~IsWhiteSpace(s[j])}
  IN  IF stops = {} THEN Len(s) ELSE MinOf(stops) - 1

\* trimmedLine.match(/^(\w+)\s*:\s*(\w+)/)
DeclMatch(s) ==
  LET e1 == WordRunEnd(s, 1)
      c  == SpaceRunEnd(s, e1 + 1) + 1
      t  == SpaceRunEnd(s, c + 1) + 1
      e2 == WordRunEnd(s, t)
  IN  IF e1 >= 1 /\ c <= Len(s) /\ s[c] = ":" /\ e2 >= t
        THEN Match(<<SubSeq(s, 1, e2), SubSeq(s, 1, e1), SubSeq(s, t, e2)>>)
        ELSE NoMatch

\* /(\w+)\s*:=/ matches with its first character at i.
AssignMatchAt(s, i) ==
  /\ IsWordChar(s[i])
  /\ LET c == SpaceRunEnd(s, WordRunEnd(s, i) + 1) + 1
     IN  c + 1 <= Len(s) /\ s[c] = ":" /\ s[c + 1] = "="

\* trimmedLine.match(/(\w+)\s*:=/): the leftmost match.
AssignMatch(s) ==
  LET starts == {i \in 1..Len(s) : AssignMatchAt(s, i)}
  IN  IF starts = {} THEN NoMatch
      ELSE LET i == MinOf(starts)
               e == WordRunEnd(s, i)
               c == SpaceRunEnd(s, e + 1) + 1
           IN  Match(<<SubSeq(s, i, c + 1), SubSeq(s, i, e)>>)

\* trimmedLine.match(/\(/g) and /\)/g: every occurrence, or null when none.
MatchAllChar(s, ch) ==
  LET hits == SelectSeq(s, LAMBDA x : x = ch)
  IN  IF hits = <<>> THEN NoMatch ELSE Match([i \in 1..Len(hits) |-> <<hits[i]>>])

\* The literal parts of a pattern a.*b.*c occur in s from position from on, in
\* order, with no line terminator in the gaps (case already folded).
RECURSIVE PartsFrom(_, _, _)
PartsFrom(s, parts, from) ==
  IF parts = <<>> THEN TRUE
  ELSE \E i \in from..(Len(s) - Len(parts[1]) + 1) :
         /\ SubSeq(s, i, i + Len(parts[1]) - 1) = parts[1]
         /\ \A k \in from..(i - 1) : ~IsLineTerminator(s[k])
         /\ PartsFrom(s, Tail(parts), i + Len(parts[1]))

\* The first literal of the pattern may start anywhere.
PartsAnywhere(s, parts) ==
  \E i \in 1..(Len(s) - Len(parts[1]) + 1) :
     /\ SubSeq(s, i, i + Len(parts[1]) - 1) = parts[1]
     /\ PartsFrom(s, Tail(parts), i + Len(parts[1]))

\* /(alt1|alt2|...)/i.test(s): each alternative is a list of literals joined by .*
TestAny(s, alts) ==
  \E a \in alts : PartsAnywhere(toUpperCase(s), [k \in 1..Len(a) |-> toUpperCase(a[k])])

\* ------------------------------------------------------------- the report

\* A diagnostic without a line number (line?: number left undefined); line
\* numbers start at 1.
NoLine == 0

\* A message: its text, and the interpolated name or type where it has one.
Msg(text, arg) == [text |-> text, arg |-> arg]

Diagnostic(type, message, line, severity, category) ==
  [type |-> type, message |-> message, line |-> line, severity |-> severity,
   category |-> category]

\* The results object a call starts from.
NewResults ==
  [isValid |-> TRUE, errors |-> <<>>, warnings |-> <<>>, suggestions |-> <<>>,
   safetyChecks |-> [emergencyStop |-> FALSE, safetyInterlocks |-> FALSE,
                     failSafeMechanisms |-> FALSE, watchdogTimer |-> FALSE,
                     inputValidation |-> FALSE],
   iecCompliance |-> [variableDeclaration |-> FALSE, dataTypeUsage |-> FALSE,
                      structureCompliance |-> FALSE, namingConvention |-> TRUE],
   syntaxScore |-> 100, logicScore |-> 100, safetyScore |-> 0]

\* A reserved-word table holding the section keywords only.
reservedWordsSections ==
  { <<"V","A","R">>, <<"E","N","D","_","V","A","R">>, <<"V","A","R","_","I","N","P","U","T">>, <<"V","A","R","_","O","U","T","P","U","T">>, <<"V","A","R","_","I","N","_","O","U","T">>, <<"V","A","R","_","T","E","M","P">>,
    <<"V","A","R","_","E","X","T","E","R","N","A","L">>, <<"V","A","R","_","G","L","O","B","A","L">> }

\* IEC 61131-3 ST reserved words.
reservedWords ==
  { <<"V","A","R">>, <<"E","N","D","_","V","A","R">>, <<"V","A","R","_","I","N","P","U","T">>, <<"V","A","R","_","O","U","T","P","U","T">>, <<"V","A","R","_","I","N","_","O","U","T">>, <<"V","A","R","_","T","E","M","P">>,
    <<"V","A","R","_","E","X","T","E","R","N","A","L">>, <<"V","A","R","_","G","L","O","B","A","L">>,
    <<"P","R","O","G","R","A","M">>, <<"E","N","D","_","P","R","O","G","R","A","M">>, <<"F","U","N","C","T","I","O","N">>, <<"E","N","D","_","F","U","N","C","T","I","O","N">>, <<"F","U","N","C","T","I","O","N","_","B","L","O","C","K">>,
    <<"E","N","D","_","F","U","N","C","T","I","O","N","_","B","L","O","C","K">>,
    <<"I","F">>, <<"T","H","E","N">>, <<"E","L","S","E">>, <<"E","L","S","I","F">>, <<"E","N","D","_","I","F">>, <<"C","A","S","E">>, <<"O","F">>, <<"E","N","D","_","C","A","S","E">>,
    <<"F","O","R">>, <<"T","O">>, <<"B","Y">>, <<"D","O">>, <<"E","N","D","_","F","O","R">>, <<"W","H","I","L","E">>, <<"E","N","D","_","W","H","I","L","E">>, <<"R","E","P","E","A","T">>,
    <<"U","N","T","I","L">>, <<"E","N","D","_","R","E","P","E","A","T">>,
    <<"E","X","I","T">>, <<"R","E","T","U","R","N">>, <<"T","R","U","E">>, <<"F","A","L","S","E">>, <<"A","N","D">>, <<"O","R">>, <<"X","O","R">>, <<"N","O","T">>, <<"M","O","D">> }

\* IEC 61131-3 standard data types.
standardDataTypes ==
  { <<"B","O","O","L">>, <<"S","I","N","T">>, <<"I","N","T">>, <<"D","I","N","T">>, <<"L","I","N","T">>, <<"U","S","I","N","T">>, <<"U","I","N","T">>, <<"U","D","I","N","T">>, <<"U","L","I","N","T">>,
    <<"R","E","A","L">>, <<"L","R","E","A","L">>, <<"T","I","M","E">>, <<"D","A","T","E">>, <<"T","I","M","E","_","O","F","_","D","A","Y">>, <<"T","O","D">>, <<"D","A","T","E","_","A","N","D","_","T","I","M","E">>, <<"D","T">>,
    <<"S","T","R","I","N","G">>, <<"W","S","T","R","I","N","G">>, <<"B","Y","T","E">>, <<"W","O","R","D">>, <<"D","W","O","R","D">>, <<"L","W","O","R","D">> }

\* The alternatives of the five safety patterns, each a list of literals joined by .*
EmergencyStopPattern == { <<<<"e","m","e","r","g","e","n","c","y">>>>, <<<<"e","_","s","t","o","p">>>>, <<<<"e","s","t","o","p">>>>, <<<<"s","a","f","e","t","y">>>> }

SafetyInterlocksPattern ==
  { <<<<"i","n","t","e","r","l","o","c","k">>>>, <<<<"s","a","f","e","t","y","_","g","a","t","e">>>>, <<<<"l","i","g","h","t","_","c","u","r","t","a","i","n">>>>, <<<<"s","a","f","e","t","y","_","d","o","o","r">>>> }

FailSafePattern == { <<<<"f","a","i","l","_","s","a","f","e">>>>, <<<<"w","a","t","c","h","d","o","g">>>>, <<<<"t","i","m","e","o","u","t">>>>, <<<<"s","a","f","e","t","y","_","t","i","m","e">>>> }

WatchdogTimerPattern == { <<<<"w","a","t","c","h","d","o","g">>>>, <<<<"w","d","t">>>>, <<<<"t","i","m","e","r">>, <<"r","e","s","e","t">>>> }

InputValidationPattern ==
  { <<<<"i","n","p","u","t">>, <<"v","a","l","i","d">>>>, <<<<"r","a","n","g","e">>, <<"c","h","e","c","k">>>>, <<<<"l","i","m","i","t">>, <<"c","h","e","c","k">>>> }

\* An error pushed without clearing isValid.
PushErrorKeepValid(r, message, line) ==
  [r EXCEPT !.errors = Append(@, [type |-> "error", message |-> message, line |-> line,
                                  severity |-> "critical", category |-> "syntax"])]

\* An error filed under the semantics category.
PushErrorSemantics(r, message, line) ==
  [r EXCEPT !.errors = Append(@, [type |-> "error", message |-> message, line |-> line,
                                  severity |-> "critical", category |-> "semantics"]),
            !.isValid = FALSE]

\* results.errors.push({...}); results.isValid = false;
PushError(r, message, line) ==
  [r EXCEPT !.errors = Append(@, Diagnostic("error", message, line, "critical", "syntax")),
            !.isValid = FALSE]

\* results.warnings.push({...})
PushWarning(r, message, line, severity, category) ==
  [r EXCEPT !.warnings = Append(@, Diagnostic("warning", message, line, severity, category))]

\* results.suggestions.push({...})
PushSuggestion(r, message, severity, category) ==
  [r EXCEPT !.suggestions = Append(@, Diagnostic("info", message, NoLine, severity, category))]

\* Set.prototype.add on a Set kept in insertion order.
SetAdd(set, x) == IF x \in Range(set) THEN set ELSE Append(set, x)

\* Set.prototype.has
SetHas(set, x) == x \in Range(set)

\* ------------------------------------------------- the scan state of a call

\* The locals of one activation of performSTValidation, as they are declared.
NewScan ==
  [results |-> NewResults, inVarSection |-> FALSE, inFunctionBlock |-> FALSE,
   braceCount |-> 0, declaredVariables |-> <<>>, usedVariables |-> <<>>,
   threw |-> FALSE]

\* Reading a property of null raises a TypeError, which ends the call.
Throw(st) == [st EXCEPT !.threw = TRUE]

\* A skip test that takes every comment line for a statement.
SkippedBlankOnly(trimmedLine) == trimmedLine = <<>>

\* A skip test that takes a block-comment line for a statement.
SkippedNoBlockComment(trimmedLine) ==
  \/ trimmedLine = <<>>
  \/ startsWith(trimmedLine, <<"/","/">>)

\* The early return of the callback: an empty line or a whole-line comment.
Skipped(trimmedLine) ==
  \/ trimmedLine = <<>>
  \/ startsWith(trimmedLine, <<"(","*">>)
  \/ startsWith(trimmedLine, <<"/","/">>)

\* Track sections.
TrackSections(st, upperLine) ==
  LET a == IF startsWith(upperLine, <<"V","A","R">>)
             THEN [st EXCEPT !.inVarSection = TRUE,
                             !.results.iecCompliance.variableDeclaration = TRUE]
             ELSE st
      b == IF upperLine = <<"E","N","D","_","V","A","R">> THEN [a EXCEPT !.inVarSection = FALSE] ELSE a
  IN  IF includes(upperLine, <<"F","U","N","C","T","I","O","N","_","B","L","O","C","K">>) \/ includes(upperLine, <<"P","R","O","G","R","A","M">>)
        THEN [b EXCEPT !.inFunctionBlock = TRUE]
        ELSE b

\* The data type check comparing the type token as written.
CheckDataTypeAsWritten(r, dataType, lineNum) ==
  IF dataType \in standardDataTypes
    THEN [r EXCEPT !.iecCompliance.dataTypeUsage = TRUE]
    ELSE [r EXCEPT !.warnings = Append(@,
            [type |-> "warning",
             message |-> [text |-> "Non-standard data type '{}' used", arg |-> dataType],
             line |-> lineNum, severity |-> "medium", category |-> "iec61131"])]

\* Check data type validity.
CheckDataType(r, dataType, lineNum) ==
  IF toUpperCase(dataType) \in standardDataTypes
    THEN [r EXCEPT !.iecCompliance.dataTypeUsage = TRUE]
    ELSE PushWarning(r, Msg("Non-standard data type '{}' used", dataType), lineNum,
                     "medium", "iec61131")

\* /^[A-Za-z][A-Za-z0-9_]*$/.test(varName)
NamingOk(varName) ==
  /\ Len(varName) >= 1
  /\ varName[1] \in LetterSet
  /\ \A i \in 2..Len(varName) : IsWordChar(varName[i])

\* The naming check assigning the flag the outcome of the current declaration.
CheckNamingLatest(r, varName, lineNum) ==
  IF ~NamingOk(varName)
    THEN [r EXCEPT !.warnings = Append(@,
            [type |-> "warning",
             message |-> [text |-> "Variable '{}' doesn't follow IEC 61131-3 naming convention",
                          arg |-> varName],
             line |-> lineNum, severity |-> "medium", category |-> "iec61131"]),
                   !.iecCompliance.namingConvention = FALSE]
    ELSE [r EXCEPT !.iecCompliance.namingConvention = TRUE]

\* Check naming convention.
CheckNaming(r, varName, lineNum) ==
  IF ~NamingOk(varName)
    THEN [PushWarning(r, Msg("Variable '{}' doesn't follow IEC 61131-3 naming convention",
                             varName), lineNum, "medium", "iec61131")
            EXCEPT !.iecCompliance.namingConvention = FALSE]
    ELSE r

\* The reserved-word check comparing the identifier as written.
CheckReservedAsWritten(r, varName, lineNum) ==
  IF varName \in reservedWords
    THEN [r EXCEPT !.errors = Append(@,
            [type |-> "error",
             message |-> [text |-> "'{}' is a reserved word and cannot be used as variable name",
                          arg |-> varName],
             line |-> lineNum, severity |-> "critical", category |-> "syntax"]),
                   !.isValid = FALSE]
    ELSE r

\* Check for reserved word usage.
CheckReserved(r, varName, lineNum) ==
  IF toUpperCase(varName) \in reservedWords
    THEN PushError(r, Msg("'{}' is a reserved word and cannot be used as variable name",
                          varName), lineNum)
    ELSE r

\* Variable declaration parsing.
ParseDeclaration(st, trimmedLine, upperLine, lineNum) ==
  IF st.inVarSection /\ includes(trimmedLine, <<":">>) /\ ~startsWith(upperLine, <<"V","A","R">>)
    THEN LET varMatch == DeclMatch(trimmedLine)
         IN  IF Truthy(varMatch)
               THEN IF ~varMatch.found
                      THEN Throw(st)
                      ELSE LET varName  == varMatch.groups[2]
                               dataType == varMatch.groups[3]
                           IN  [st EXCEPT
                                 !.declaredVariables = SetAdd(@, toUpperCase(varName)),
                                 !.results = CheckReserved(
                                               CheckNaming(
                                                 CheckDataType(@, dataType, lineNum),
                                                 varName, lineNum),
                                               varName, lineNum)]
               ELSE st
    ELSE st

\* The IF rule looking for THEN followed by a space.
CheckIfThenSpace(r, trimmedLine, upperLine, lineNum) ==
  IF includes(upperLine, <<"I","F"," ">>) /\ ~includes(upperLine, <<"T","H","E","N"," ">>)
       /\ ~includes(trimmedLine, <<":","=">>)
    THEN [r EXCEPT !.errors = Append(@,
            [type |-> "error",
             message |-> [text |-> "IF statement must be followed by THEN", arg |-> <<>>],
             line |-> lineNum, severity |-> "critical", category |-> "syntax"]),
                   !.isValid = FALSE]
    ELSE r

\* The IF rule without its exclusion of lines that hold an assignment.
CheckIfIgnoringAssign(r, trimmedLine, upperLine, lineNum) ==
  IF includes(upperLine, <<"I","F"," ">>) /\ ~includes(upperLine, <<"T","H","E","N">>)
    THEN [r EXCEPT !.errors = Append(@,
            [type |-> "error",
             message |-> [text |-> "IF statement must be followed by THEN", arg |-> <<>>],
             line |-> lineNum, severity |-> "critical", category |-> "syntax"]),
                   !.isValid = FALSE]
    ELSE r

\* IF-THEN-END_IF structure.
CheckIf(r, trimmedLine, upperLine, lineNum) ==
  IF includes(upperLine, <<"I","F"," ">>) /\ ~includes(upperLine, <<"T","H","E","N">>)
       /\ ~includes(trimmedLine, <<":","=">>)
    THEN PushError(r, Msg("IF statement must be followed by THEN", <<>>), lineNum)
    ELSE r

\* The FOR rule applied only to lines that begin with the keyword.
CheckForAtStart(r, upperLine, lineNum) ==
  IF startsWith(upperLine, <<"F","O","R"," ">>) /\ ~includes(upperLine, <<"T","O">>)
    THEN [r EXCEPT !.errors = Append(@,
            [type |-> "error",
             message |-> [text |-> "FOR statement missing TO keyword", arg |-> <<>>],
             line |-> lineNum, severity |-> "critical", category |-> "syntax"]),
                   !.isValid = FALSE]
    ELSE r

\* FOR-TO-DO-END_FOR structure.
CheckFor(r, upperLine, lineNum) ==
  IF includes(upperLine, <<"F","O","R"," ">>) /\ ~includes(upperLine, <<"T","O">>)
    THEN PushError(r, Msg("FOR statement missing TO keyword", <<>>), lineNum)
    ELSE r

\* The WHILE rule made to depend on the FOR rule: silent on a line that is also
\* a FOR line.
CheckWhileUnlessFor(r, upperLine, lineNum) ==
  IF includes(upperLine, <<"W","H","I","L","E"," ">>) /\ ~includes(upperLine, <<"D","O">>)
       /\ ~includes(upperLine, <<"F","O","R"," ">>)
    THEN [r EXCEPT !.errors = Append(@,
            [type |-> "error",
             message |-> [text |-> "WHILE statement missing DO keyword", arg |-> <<>>],
             line |-> lineNum, severity |-> "critical", category |-> "syntax"]),
                   !.isValid = FALSE]
    ELSE r

\* WHILE-DO-END_WHILE structure.
CheckWhile(r, upperLine, lineNum) ==
  IF includes(upperLine, <<"W","H","I","L","E"," ">>) /\ ~includes(upperLine, <<"D","O">>)
    THEN PushError(r, Msg("WHILE statement missing DO keyword", <<>>), lineNum)
    ELSE r

\* CASE-OF-END_CASE structure.
CheckCase(r, upperLine, lineNum) ==
  IF includes(upperLine, <<"C","A","S","E"," ">>) /\ ~includes(upperLine, <<"O","F">>)
    THEN PushError(r, Msg("CASE statement missing OF keyword", <<>>), lineNum)
    ELSE r

\* The assignment-operator rule with the IF exclusion inverted.
CheckAssignmentOperatorOnIf(r, trimmedLine, upperLine, lineNum) ==
  IF includes(trimmedLine, <<"=">>) /\ ~includes(trimmedLine, <<":","=">>)
       /\ ~includes(trimmedLine, <<"<","=">>) /\ ~includes(trimmedLine, <<">","=">>)
       /\ ~includes(trimmedLine, <<"<",">">>) /\ includes(upperLine, <<"I","F"," ">>)
    THEN [r EXCEPT !.warnings = Append(@,
            [type |-> "warning",
             message |-> [text |-> "Use := for assignment, = is for comparison", arg |-> <<>>],
             line |-> lineNum, severity |-> "medium", category |-> "syntax"])]
    ELSE r

\* The assignment-operator rule deciding on each equals sign by the character
\* before it.
CheckAssignmentOperatorBare(r, trimmedLine, upperLine, lineNum) ==
  IF /\ \E i \in 1..Len(trimmedLine) :
          /\ trimmedLine[i] = "="
          /\ (i = 1 \/ trimmedLine[i - 1] \notin {":", "<", ">"})
     /\ ~includes(upperLine, <<"I","F"," ">>)
    THEN [r EXCEPT !.warnings = Append(@,
            [type |-> "warning",
             message |-> [text |-> "Use := for assignment, = is for comparison", arg |-> <<>>],
             line |-> lineNum, severity |-> "medium", category |-> "syntax"])]
    ELSE r

\* Assignment operator validation.
CheckAssignmentOperator(r, trimmedLine, upperLine, lineNum) ==
  IF includes(trimmedLine, <<"=">>) /\ ~includes(trimmedLine, <<":","=">>)
       /\ ~includes(trimmedLine, <<"<","=">>) /\ ~includes(trimmedLine, <<">","=">>)
       /\ ~includes(trimmedLine, <<"<",">">>) /\ ~includes(upperLine, <<"I","F"," ">>)
    THEN PushWarning(r, Msg("Use := for assignment, = is for comparison", <<>>), lineNum,
                     "medium", "syntax")
    ELSE r

\* The semicolon rule applied inside declaration sections too.
CheckSemicolonAnywhere(st, trimmedLine, upperLine, lineNum) ==
  IF (includes(trimmedLine, <<":","=">>) \/ startsWith(upperLine, <<"R","E","T","U","R","N">>)
        \/ includes(upperLine, <<"E","X","I","T">>))
       /\ ~endsWith(trimmedLine, <<";">>)
    THEN [st EXCEPT !.results.warnings = Append(@,
            [type |-> "warning",
             message |-> [text |-> "Statement should end with semicolon", arg |-> <<>>],
             line |-> lineNum, severity |-> "medium", category |-> "style"])]
    ELSE st

\* Semicolon validation.
CheckSemicolon(st, trimmedLine, upperLine, lineNum) ==
  IF ~st.inVarSection
       /\ (includes(trimmedLine, <<":","=">>) \/ startsWith(upperLine, <<"R","E","T","U","R","N">>)
             \/ includes(upperLine, <<"E","X","I","T">>))
       /\ ~endsWith(trimmedLine, <<";">>)
    THEN [st EXCEPT !.results = PushWarning(@, Msg("Statement should end with semicolon", <<>>),
                                            lineNum, "medium", "style")]
    ELSE st

\* Usage tracking that records the assignment target as written.
TrackUsageAsWritten(st, trimmedLine) ==
  LET assignmentMatch == AssignMatch(trimmedLine)
  IN  IF assignmentMatch.found
        THEN [st EXCEPT !.usedVariables = SetAdd(@, assignmentMatch.groups[2])]
        ELSE st

\* Usage tracking that records the last assignment target of the line.
TrackUsageLast(st, trimmedLine) ==
  LET starts == {i \in 1..Len(trimmedLine) :
                   /\ AssignMatchAt(trimmedLine, i)
                   /\ (i = 1 \/ ~IsWordChar(trimmedLine[i - 1]))}
  IN  IF starts = {} THEN st
      ELSE [st EXCEPT !.usedVariables =
              SetAdd(@, toUpperCase(SubSeq(trimmedLine, MaxOf(starts),
                                           WordRunEnd(trimmedLine, MaxOf(starts)))))]

\* Variable usage tracking.
TrackUsage(st, trimmedLine) ==
  LET assignmentMatch == AssignMatch(trimmedLine)
  IN  IF Truthy(assignmentMatch)
        THEN IF ~assignmentMatch.found
               THEN Throw(st)
               ELSE [st EXCEPT !.usedVariables =
                                  SetAdd(@, toUpperCase(assignmentMatch.groups[2]))]
        ELSE st

\* The flag assigned the outcome of the test on the current line.
AssignFlag(flag, hit) == hit

\* if (pattern.test(trimmedLine)) flag = true;
SetFlag(flag, hit) == IF hit THEN TRUE ELSE flag

\* Safety checks.
SafetyChecks(sc, trimmedLine) ==
  [emergencyStop      |-> SetFlag(sc.emergencyStop, TestAny(trimmedLine, EmergencyStopPattern)),
   safetyInterlocks   |-> SetFlag(sc.safetyInterlocks,
                                  TestAny(trimmedLine, SafetyInterlocksPattern)),
   failSafeMechanisms |-> SetFlag(sc.failSafeMechanisms, TestAny(trimmedLine, FailSafePattern)),
   watchdogTimer      |-> SetFlag(sc.watchdogTimer, TestAny(trimmedLine, WatchdogTimerPattern)),
   inputValidation    |-> SetFlag(sc.inputValidation,
                                  TestAny(trimmedLine, InputValidationPattern))]

\* Structure compliance.
StructureCompliance(r, upperLine) ==
  IF includes(upperLine, <<"E","N","D","_","I","F">>) \/ includes(upperLine, <<"E","N","D","_","F","O","R">>)
       \/ includes(upperLine, <<"E","N","D","_","W","H","I","L","E">>) \/ includes(upperLine, <<"E","N","D","_","C","A","S","E">>)
    THEN [r EXCEPT !.iecCompliance.structureCompliance = TRUE]
    ELSE r

\* Parentheses and bracket matching.
CountParens(st, trimmedLine) ==
  LET open  == OrEmpty(MatchAllChar(trimmedLine, "("))
      close == OrEmpty(MatchAllChar(trimmedLine, ")"))
  IN  IF ~open.found \/ ~close.found
        THEN Throw(st)
        ELSE [st EXCEPT !.braceCount = @ + Len(open.groups) - Len(close.groups)]

\* One callback of lines.forEach((line, index) => ...).
LineStep(st, line, lineNum) ==
  LET trimmedLine == trim(line)
      upperLine   == toUpperCase(trimmedLine)
  IN  IF Skipped(trimmedLine) THEN st
      ELSE LET s1 == ParseDeclaration(TrackSections(st, upperLine), trimmedLine, upperLine,
                                      lineNum)
               s2 == [s1 EXCEPT !.results =
                        CheckAssignmentOperator(
                          CheckCase(
                            CheckWhile(
                              CheckFor(
                                CheckIf(@, trimmedLine, upperLine, lineNum),
                                upperLine, lineNum),
                              upperLine, lineNum),
                            upperLine, lineNum),
                          trimmedLine, upperLine, lineNum)]
               s3 == TrackUsage(CheckSemicolon(s2, trimmedLine, upperLine, lineNum),
                                trimmedLine)
               s4 == [s3 EXCEPT !.results =
                        StructureCompliance(
                          [@ EXCEPT !.safetyChecks = SafetyChecks(@, trimmedLine)],
                          upperLine)]
               s5 == CountParens(s4, trimmedLine)
           IN  IF s1.threw THEN s1 ELSE IF s3.threw THEN s3 ELSE s5

\* ------------------------------------------------------------ finalisation

\* The parenthesis check testing only for a surplus of open parentheses.
CheckParensSurplus(r, count) ==
  IF count > 0 THEN PushError(r, Msg("Unmatched parentheses in code", <<>>), NoLine) ELSE r

\* The parenthesis check putting its error at the head of the list.
CheckParensAtHead(r, count) ==
  IF count # 0
    THEN [r EXCEPT !.errors = <<[type |-> "error",
                                 message |-> [text |-> "Unmatched parentheses in code",
                                              arg |-> <<>>],
                                 line |-> 0, severity |-> "critical",
                                 category |-> "syntax"]>> \o @,
                   !.isValid = FALSE]
    ELSE r

\* Check for unmatched parentheses.
CheckParens(r, count) ==
  IF count # 0 THEN PushError(r, Msg("Unmatched parentheses in code", <<>>), NoLine) ELSE r

\* The unused-variable check without the usedVariables test.
RECURSIVE CheckUnusedAll(_, _, _)
CheckUnusedAll(r, declared, used) ==
  IF declared = <<>> THEN r
  ELSE CheckUnusedAll(
         PushWarning(r, Msg("Variable '{}' declared but never used", Head(declared)),
                     NoLine, "low", "style"),
         Tail(declared), used)

\* Check for unused variables: declaredVariables.forEach, in insertion order.
RECURSIVE CheckUnused(_, _, _)
CheckUnused(r, declared, used) ==
  IF declared = <<>> THEN r
  ELSE CheckUnused(
         IF ~SetHas(used, Head(declared))
           THEN PushWarning(r, Msg("Variable '{}' declared but never used", Head(declared)),
                            NoLine, "low", "style")
           ELSE r,
         Tail(declared), used)

\* The suggestions with the emergency-stop advice filed as a warning.
SuggestionsAsWarning(r, text) ==
  LET a == IF ~includes(text, <<"(","*">>) /\ ~includes(text, <<"/","/">>)
             THEN [r EXCEPT !.suggestions = Append(@,
                     [type |-> "info",
                      message |-> [text |-> "Add comments using (* *) or // for better code documentation",
                                   arg |-> <<>>],
                      line |-> 0, severity |-> "low", category |-> "style"])]
             ELSE r
      b == IF ~a.safetyChecks.emergencyStop
             THEN [a EXCEPT !.warnings = Append(@,
                     [type |-> "info",
                      message |-> [text |-> "Consider implementing emergency stop logic for safety compliance",
                                   arg |-> <<>>],
                      line |-> 0, severity |-> "medium", category |-> "safety"])]
             ELSE a
  IN  IF Len(split(text)) > 100
        THEN [b EXCEPT !.suggestions = Append(@,
                [type |-> "info",
                 message |-> [text |-> "Consider breaking large programs into smaller function blocks",
                              arg |-> <<>>],
                 line |-> 0, severity |-> "low", category |-> "style"])]
        ELSE b

\* Additional suggestions.
Suggestions(r, text) ==
  LET a == IF ~includes(text, <<"(","*">>) /\ ~includes(text, <<"/","/">>)
             THEN PushSuggestion(r,
                    Msg("Add comments using (* *) or // for better code documentation", <<>>),
                    "low", "style")
             ELSE r
      b == IF ~a.safetyChecks.emergencyStop
             THEN PushSuggestion(a,
                    Msg("Consider implementing emergency stop logic for safety compliance",
                        <<>>),
                    "medium", "safety")
             ELSE a
  IN  IF Len(split(text)) > 100
        THEN PushSuggestion(b,
               Msg("Consider breaking large programs into smaller function blocks", <<>>),
               "low", "style")
        ELSE b

Max(a, b) == IF a >= b THEN a ELSE b

Min(a, b) == IF a <= b THEN a ELSE b

\* Object.values(results.safetyChecks).filter(Boolean).length
SafetyFeatures(sc) ==
  Cardinality({k \in DOMAIN sc : sc[k]})

\* The scores without the clamp of the syntax score at 0.
ScoresNoClamp(r) ==
  [r EXCEPT !.syntaxScore = 100 - Len(r.errors) * 15 - Len(r.warnings) * 5,
            !.logicScore  = Max(0, 100 - Len(SelectSeq(r.errors,
                                                       LAMBDA e : e.category = "semantics")) * 20),
            !.safetyScore = Min(100, SafetyFeatures(r.safetyChecks) * 20)]

\* The scores with ten points for each safety feature.
ScoresSafetyTen(r) ==
  [r EXCEPT !.syntaxScore = Max(0, 100 - Len(r.errors) * 15 - Len(r.warnings) * 5),
            !.logicScore  = Max(0, 100 - Len(SelectSeq(r.errors,
                                                       LAMBDA e : e.category = "semantics")) * 20),
            !.safetyScore = Min(100, SafetyFeatures(r.safetyChecks) * 10)]

\* Calculate scores.
Scores(r) ==
  LET errorPenalty   == Len(r.errors) * 15
      warningPenalty == Len(r.warnings) * 5
      semantic       == SelectSeq(r.errors, LAMBDA e : e.category = "semantics")
  IN  [r EXCEPT !.syntaxScore = Max(0, 100 - errorPenalty - warningPenalty),
                !.logicScore  = Max(0, 100 - Len(semantic) * 20),
                !.safetyScore = Min(100, SafetyFeatures(r.safetyChecks) * 20)]

\* Everything after the forEach: the report the call returns.
Final(st, text) ==
  Scores(Suggestions(CheckUnused(CheckParens(st.results, st.braceCount),
                                 st.declaredVariables, st.usedVariables),
                     text))

\* The whole of performSTValidation on one input, run alone.
RECURSIVE ScanFrom(_, _, _)
ScanFrom(st, ls, i) ==
  IF i > Len(ls) \/ st.threw THEN st ELSE ScanFrom(LineStep(st, ls[i], i), ls, i + 1)

performSTValidation(text) == Final(ScanFrom(NewScan, split(text), 1), text)

\* ------------------------------------------------------------------ inputs

RECURSIVE Join(_)
Join(ls) ==
  IF Len(ls) = 0 THEN <<>>
  ELSE IF Len(ls) = 1 THEN ls[1]
  ELSE ls[1] \o <<"\n">> \o Join(Tail(ls))

\* Every program of at most n lines taken from pool.
Programs(pool, n) == {Join(ls) : ls \in UNION {[1..k -> pool] : k \in 0..n}}

\* Declarations, statements, comments and blank lines.
CorePool ==
  { <<"V","A","R">>, <<"E","N","D","_","V","A","R">>, <<"a"," ",":"," ","B","O","O","L",";">>, <<"I","F"," ",":"," ","B","O","O","L",";">>, <<"a"," ",":","="," ","(","b",";">>, <<"b"," ",":","="," ","1",")",";">>,
    <<"a"," ","="," ","T","R","U","E",";">>, <<"/","/"," ","(","e","s","t","o","p">>, <<>> }

\* Lines carrying the words of the safety patterns.
SafetyPool ==
  { <<"e","s","t","o","p"," ",":","="," ","T","R","U","E">>, <<"i","n","t","e","r","l","o","c","k">>, <<"W","a","t","c","h","d","o","g">>, <<"w","d","t">>, <<"r","a","n","g","e"," ","c","h","e","c","k">>, <<"x"," ",":","="," ","1",";">> }

ScenarioA == Join(<<<<"V","A","R">>, <<"I","F"," ",":"," ","B","O","O","L",";">>, <<"E","N","D","_","V","A","R">>>>)

ScenarioB == <<"x"," ",":","="," ","(","a"," ","+"," ","b",";">>

ScenarioC == Join(<<<<"V","A","R">>, <<"a"," ",":"," ","B","O","O","L",";">>, <<"E","N","D","_","V","A","R">>, <<"a"," ","="," ","T","R","U","E",";">>>>)

ScenarioD == <<"e","m","e","r","g","e","n","c","y","_","s","t","o","p"," ",":","="," ","T","R","U","E",";">>

ScenarioE == Join(<<<<"V","A","R">>, <<"u","n","u","s","e","d","_","v","a","r"," ",":"," ","I","N","T",";">>, <<"E","N","D","_","V","A","R">>>>)

\* Lines that each break several keyword-pair rules, for the score clamp.
ManyErrors ==
  { Join([i \in 1..k |-> <<"I","F"," ","F","O","R"," ","W","H","I","L","E"," ","C","A","S","E"," ","x">>]) : k \in 1..MaxLines }

\* A FOR line with its TO, then a line that opens three loops and closes none.
LoopMix == Join(<<<<"F","O","R"," ","i"," ",":","="," ","1"," ","T","O"," ","3"," ","D","O">>, <<"f","o","r"," ","x"," ","w","h","i","l","e"," ","y"," ","c","a","s","e"," ","z">>>>)

\* A program whose lines set all five safety flags.
AllSafety == Join(<<<<"E","_","S","t","o","p"," ",":","="," ","T","R","U","E">>, <<"i","n","t","e","r","l","o","c","k">>, <<"W","a","t","c","h","d","o","g">>, <<"r","a","n","g","e"," ","c","h","e","c","k">>>>)

\* Blank lines and whole-line comments.
BlankPool == { <<>>, <<" "," ","\t">>, <<"/","/"," ","(","e","s","t","o","p">>, <<"(","*"," ","V","A","R"," ","("," ","*",")">> }

\* Prose, not Structured Text.
ProsePool == { <<"h","e","l","l","o"," ","w","o","r","l","d">>, <<"w","a","i","t"," ","f","o","r"," ","i","t">>, <<"w","h","a","t"," ","i","f"," ","n","o","t">>, <<"t","h","e"," ","e","n","d",".">> }

\* Section keywords, and statements that begin like them.
SectionPool == { <<"V","A","R","_","I","N","P","U","T">>, <<"E","N","D","_","V","A","R">>, <<"v","a","r","1"," ",":","="," ","0",";">>, <<"P","R","O","G","R","A","M"," ","M","a","i","n">>, <<"e","n","d","_","v","a","r",";">> }

\* Openers of the keyword pairs, with and without their closers.
KeywordPool ==
  { <<"I","F"," ","a"," ","T","H","E","N">>, <<"i","f"," ","a">>, <<"b"," ",":","="," ","I","F"," ","a">>, <<"F","O","R"," ","i"," ",":","="," ","1"," ","T","O"," ","3"," ","D","O">>, <<"f","o","r"," ","i"," ",":","="," ","1">>,
    <<"W","H","I","L","E"," ","a"," ","D","O">>, <<"w","h","i","l","e"," ","a">>, <<"C","A","S","E"," ","s"," ","O","F">>, <<"c","a","s","e"," ","s">> }

\* Equals signs, bare and inside other operators.
AssignPool == { <<"a"," ","="," ","1">>, <<"a"," ",":","="," ","b"," ","="," ","c",";">>, <<"I","F"," ","a"," ","="," ","b"," ","T","H","E","N">>, <<"a"," ",">","="," ","b"," ","="," ","c">>, <<"a"," ","<",">"," ","b">> }

\* Statements with and without their semicolon, inside and outside a section.
SemicolonPool == { <<"V","A","R">>, <<"E","N","D","_","V","A","R">>, <<"x"," ",":","="," ","1">>, <<"R","E","T","U","R","N">>, <<"y"," ",":","="," ","2",";">>, <<"E","X","I","T","I","N","G">> }

Inputs ==
  Programs(CorePool, MaxLines) \cup Programs(SafetyPool, MaxLines)
    \cup Programs(BlankPool, MaxLines) \cup Programs(ProsePool, MaxLines)
    \cup Programs(SectionPool, MaxLines) \cup Programs(SemicolonPool, MaxLines)
    \cup Programs(KeywordPool, MaxLines - 1) \cup Programs(AssignPool, MaxLines - 1)
    \cup {ScenarioA, ScenarioB, ScenarioC, ScenarioD, ScenarioE, AllSafety, LoopMix} \cup ManyErrors

\* Declaration lines: standard and non-standard types, default-value clauses,
\* names that break the naming convention, reserved words, a name that begins
\* like the section keyword, and a line that closes a control structure.
DeclPool ==
  { <<"x"," ",":"," ","I","N","T",";">>, <<"x"," ",":"," ","I","N","T"," ",":","="," ","5",";">>, <<"y"," ",":"," ","M","y","T","y","p","e",";">>, <<"1","s","t"," ",":"," ","r","e","a","l",";">>, <<"i","f"," ",":"," ","B","O","O","L",";">>,
    <<"I","F"," ",":"," ","B","O","O","L"," ",":","="," ","T","R","U","E",";">>, <<"I","N","T"," ",":"," ","B","O","O","L",";">>, <<"M","o","t","o","r"," ",":"," ","B","O","O","L",";">>, <<"v","a","r","i","a","n","c","e"," ",":"," ","R","E","A","L",";">>, <<"E","N","D","_","I","F",";">> }

\* Statements that follow the declarations.
StmtPool == { <<"x"," ",":","="," ","1",";"," ","y"," ",":","="," ","2",";">>, <<"M","O","T","O","R"," ",":","="," ","(","T","R","U","E",";">>, <<"e","s","t","o","p"," ",":","="," ","T","R","U","E">> }

\* Every sequence of at most n lines of pool.
LinesOf(pool, n) == UNION {[1..k -> pool] : k \in 0..n}

\* Programs of declarations: inside a VAR section followed by at most one
\* statement, and with no section around them.
DeclInputs ==
  {Join(<<<<"V","A","R">>>> \o ds \o <<<<"E","N","D","_","V","A","R">>>> \o ss) :
     ds \in LinesOf(DeclPool, MaxDecls), ss \in LinesOf(StmtPool, 1)}
    \cup {Join(ds \o ss) : ds \in LinesOf(DeclPool, MaxDecls), ss \in LinesOf(StmtPool, 1)}

\* ------------------------------------------- built-in templates, large inputs

\* The code of the built-in template, 18 lines.
MotorStartStop ==
  Join(<<<<"P","R","O","G","R","A","M"," ","M","o","t","o","r","C","o","n","t","r","o","l">>,
         <<"V","A","R">>,
         <<" "," "," "," ","s","t","a","r","t","_","b","u","t","t","o","n"," ",":"," ","B","O","O","L",";">>,
         <<" "," "," "," ","s","t","o","p","_","b","u","t","t","o","n"," ",":"," ","B","O","O","L",";">>,
         <<" "," "," "," ","m","o","t","o","r","_","r","u","n","n","i","n","g"," ",":"," ","B","O","O","L",";">>,
         <<" "," "," "," ","m","o","t","o","r","_","o","u","t","p","u","t"," ",":"," ","B","O","O","L",";">>,
         <<"E","N","D","_","V","A","R">>,
         <<>>,
         <<"/","/"," ","M","o","t","o","r"," ","c","o","n","t","r","o","l"," ","l","o","g","i","c">>,
         <<"I","F"," ","s","t","a","r","t","_","b","u","t","t","o","n"," ","A","N","D"," ","N","O","T"," ","s","t","o","p","_","b","u","t","t","o","n"," ","T","H","E","N">>,
         <<" "," "," "," ","m","o","t","o","r","_","r","u","n","n","i","n","g"," ",":","="," ","T","R","U","E",";">>,
         <<"E","L","S","I","F"," ","s","t","o","p","_","b","u","t","t","o","n"," ","T","H","E","N">>,
         <<" "," "," "," ","m","o","t","o","r","_","r","u","n","n","i","n","g"," ",":","="," ","F","A","L","S","E",";">>,
         <<"E","N","D","_","I","F",";">>,
         <<>>,
         <<"m","o","t","o","r","_","o","u","t","p","u","t"," ",":","="," ","m","o","t","o","r","_","r","u","n","n","i","n","g",";">>,
         <<>>,
         <<"E","N","D","_","P","R","O","G","R","A","M">>>>)

\* The code of the built-in template, 28 lines.
TankLevelControl ==
  Join(<<<<"P","R","O","G","R","A","M"," ","T","a","n","k","L","e","v","e","l","C","o","n","t","r","o","l">>,
         <<"V","A","R">>,
         <<" "," "," "," ","t","a","n","k","_","l","e","v","e","l"," ",":"," ","R","E","A","L",";">>,
         <<" "," "," "," ","h","i","g","h","_","l","e","v","e","l","_","a","l","a","r","m"," ",":"," ","B","O","O","L",";">>,
         <<" "," "," "," ","l","o","w","_","l","e","v","e","l","_","a","l","a","r","m"," ",":"," ","B","O","O","L",";">>,
         <<" "," "," "," ","f","i","l","l","_","v","a","l","v","e"," ",":"," ","B","O","O","L",";">>,
         <<" "," "," "," ","d","r","a","i","n","_","v","a","l","v","e"," ",":"," ","B","O","O","L",";">>,
         <<" "," "," "," ","h","i","g","h","_","s","e","t","p","o","i","n","t"," ",":"," ","R","E","A","L"," ",":","="," ","9","0",".","0",";">>,
         <<" "," "," "," ","l","o","w","_","s","e","t","p","o","i","n","t"," ",":"," ","R","E","A","L"," ",":","="," ","1","0",".","0",";">>,
         <<"E","N","D","_","V","A","R">>,
         <<>>,
         <<"/","/"," ","H","i","g","h"," ","l","e","v","e","l"," ","a","l","a","r","m">>,
         <<"I","F"," ","t","a","n","k","_","l","e","v","e","l"," ",">"," ","h","i","g","h","_","s","e","t","p","o","i","n","t"," ","T","H","E","N">>,
         <<" "," "," "," ","h","i","g","h","_","l","e","v","e","l","_","a","l","a","r","m"," ",":","="," ","T","R","U","E",";">>,
         <<" "," "," "," ","f","i","l","l","_","v","a","l","v","e"," ",":","="," ","F","A","L","S","E",";">>,
         <<"E","L","S","E">>,
         <<" "," "," "," ","h","i","g","h","_","l","e","v","e","l","_","a","l","a","r","m"," ",":","="," ","F","A","L","S","E",";">>,
         <<"E","N","D","_","I","F",";">>,
         <<>>,
         <<"/","/"," ","L","o","w"," ","l","e","v","e","l"," ","a","l","a","r","m">>,
         <<"I","F"," ","t","a","n","k","_","l","e","v","e","l"," ","<"," ","l","o","w","_","s","e","t","p","o","i","n","t"," ","T","H","E","N">>,
         <<" "," "," "," ","l","o","w","_","l","e","v","e","l","_","a","l","a","r","m"," ",":","="," ","T","R","U","E",";">>,
         <<" "," "," "," ","d","r","a","i","n","_","v","a","l","v","e"," ",":","="," ","F","A","L","S","E",";">>,
         <<"E","L","S","E">>,
         <<" "," "," "," ","l","o","w","_","l","e","v","e","l","_","a","l","a","r","m"," ",":","="," ","F","A","L","S","E",";">>,
         <<"E","N","D","_","I","F",";">>,
         <<>>,
         <<"E","N","D","_","P","R","O","G","R","A","M">>>>)

\* The code of the built-in template, 26 lines.
ConveyorSystem ==
  Join(<<<<"P","R","O","G","R","A","M"," ","C","o","n","v","e","y","o","r","C","o","n","t","r","o","l">>,
         <<"V","A","R">>,
         <<" "," "," "," ","c","o","n","v","e","y","o","r","_","s","t","a","r","t"," ",":"," ","B","O","O","L",";">>,
         <<" "," "," "," ","c","o","n","v","e","y","o","r","_","s","t","o","p"," ",":"," ","B","O","O","L",";">>,
         <<" "," "," "," ","e","m","e","r","g","e","n","c","y","_","s","t","o","p"," ",":"," ","B","O","O","L",";">>,
         <<" "," "," "," ","s","a","f","e","t","y","_","g","u","a","r","d"," ",":"," ","B","O","O","L",";">>,
         <<" "," "," "," ","c","o","n","v","e","y","o","r","_","m","o","t","o","r"," ",":"," ","B","O","O","L",";">>,
         <<" "," "," "," ","c","o","n","v","e","y","o","r","_","r","u","n","n","i","n","g"," ",":"," ","B","O","O","L",";">>,
         <<"E","N","D","_","V","A","R">>,
         <<>>,
         <<"/","/"," ","S","a","f","e","t","y"," ","i","n","t","e","r","l","o","c","k","s">>,
         <<"I","F"," ","N","O","T"," ","e","m","e","r","g","e","n","c","y","_","s","t","o","p"," ","A","N","D"," ","s","a","f","e","t","y","_","g","u","a","r","d"," ","T","H","E","N">>,
         <<" "," "," "," ","/","/"," ","N","o","r","m","a","l"," ","o","p","e","r","a","t","i","o","n">>,
         <<" "," "," "," ","I","F"," ","c","o","n","v","e","y","o","r","_","s","t","a","r","t"," ","A","N","D"," ","N","O","T"," ","c","o","n","v","e","y","o","r","_","s","t","o","p"," ","T","H","E","N">>,
         <<" "," "," "," "," "," "," "," ","c","o","n","v","e","y","o","r","_","r","u","n","n","i","n","g"," ",":","="," ","T","R","U","E",";">>,
         <<" "," "," "," ","E","L","S","I","F"," ","c","o","n","v","e","y","o","r","_","s","t","o","p"," ","T","H","E","N">>,
         <<" "," "," "," "," "," "," "," ","c","o","n","v","e","y","o","r","_","r","u","n","n","i","n","g"," ",":","="," ","F","A","L","S","E",";">>,
         <<" "," "," "," ","E","N","D","_","I","F",";">>,
         <<"E","L","S","E">>,
         <<" "," "," "," ","/","/"," ","S","a","f","e","t","y"," ","s","t","o","p">>,
         <<" "," "," "," ","c","o","n","v","e","y","o","r","_","r","u","n","n","i","n","g"," ",":","="," ","F","A","L","S","E",";">>,
         <<"E","N","D","_","I","F",";">>,
         <<>>,
         <<"c","o","n","v","e","y","o","r","_","m","o","t","o","r"," ",":","="," ","c","o","n","v","e","y","o","r","_","r","u","n","n","i","n","g",";">>,
         <<>>,
         <<"E","N","D","_","P","R","O","G","R","A","M">>>>)

\* The built-in templates seeded by MemStorage.
builtInTemplates == {MotorStartStop, TankLevelControl, ConveyorSystem}

\* The number of lines above which a program is called large.
SizeLimit == 100

\* A program of n statements, one a line, with or without a final newline.
Statements(n, finalNewline) ==
  LET line == <<"x"," ",":","="," ","1",";">> \o <<"\n">>
      len  == n * Len(line) - (IF finalNewline THEN 0 ELSE 1)
  IN  [i \in 1..len |-> line[((i - 1) % Len(line)) + 1]]

\* Programs around the size limit, and the built-in templates.
LargeInputs ==
  {Statements(n, nl) : n \in {SizeLimit - 1, SizeLimit, SizeLimit + 1}, nl \in BOOLEAN}
    \cup builtInTemplates

\* Lines that spell keywords, names, types and safety words in mixed case.
CasePool ==
  { <<"V","a","r">>, <<"E","n","d","_","V","a","r">>, <<"M","o","t","o","r"," ",":"," ","B","o","o","l",";">>, <<"M","O","T","O","R"," ",":","="," ","t","r","u","e",";">>, <<"I","f"," ","x"," ","T","h","e","n">>, <<"i","f"," ","x">>,
    <<"E","_","S","t","o","p"," ",":","="," ","1">>, <<"F","o","r"," ","i"," ",":","="," ","1">>, <<"T","i","m","e","r"," ","R","e","s","e","t">>, <<"E","n","d","_","I","f",";">> }

\* A variable declared in one letter case and assigned in another.
MotorCase == Join(<<<<"V","A","R">>, <<"M","o","t","o","r"," ",":"," ","B","O","O","L",";">>, <<"E","N","D","_","V","A","R">>, <<"M","O","T","O","R"," ",":","="," ","(","T","R","U","E",";">>>>)

\* Programs in mixed case.
CaseInputs == Programs(CasePool, MaxDecls) \cup {MotorCase}

\* The inputs of calls that run at the same time.
ConcInputs == {ScenarioE, <<"x"," ",":","="," ","(","1">>, <<"e","s","t","o","p"," ","="," ","1">>, <<"I","F"," ","x">>, <<>>}

\* ------------------------------------------------------------ the machine

Calls == DOMAIN pc

InitWith(calls, inputs) ==
  /\ pc = [c \in calls |-> "await"]
  /\ code \in [calls -> inputs]
  /\ index = [c \in calls |-> 0]
  /\ lines = [c \in calls |-> <<>>]
  /\ results = [c \in calls |-> NewScan.results]
  /\ inVarSection = [c \in calls |-> NewScan.inVarSection]
  /\ inFunctionBlock = [c \in calls |-> NewScan.inFunctionBlock]
  /\ braceCount = [c \in calls |-> NewScan.braceCount]
  /\ declaredVariables = [c \in calls |-> NewScan.declaredVariables]
  /\ usedVariables = [c \in calls |-> NewScan.usedVariables]

\* One call, pending on its timer.
Init == InitWith(1..1, Inputs)

\* One call on a program of declarations.
InitDecl == InitWith(1..1, DeclInputs)

\* One call on a large program or a built-in template.
InitLarge == InitWith(1..1, LargeInputs)

\* One call on a program in mixed case.
InitCase == InitWith(1..1, CaseInputs)

\* Several calls, all pending on their timers.
InitConc == InitWith(1..MaxCalls, ConcInputs)

\* The locals of call c as one record.
Scan(c) ==
  [results |-> results[c], inVarSection |-> inVarSection[c],
   inFunctionBlock |-> inFunctionBlock[c], braceCount |-> braceCount[c],
   declaredVariables |-> declaredVariables[c], usedVariables |-> usedVariables[c],
   threw |-> FALSE]

\* The locals of call c become those of st.
Store(c, st) ==
  /\ results' = [results EXCEPT ![c] = st.results]
  /\ inVarSection' = [inVarSection EXCEPT ![c] = st.inVarSection]
  /\ inFunctionBlock' = [inFunctionBlock EXCEPT ![c] = st.inFunctionBlock]
  /\ braceCount' = [braceCount EXCEPT ![c] = st.braceCount]
  /\ declaredVariables' = [declaredVariables EXCEPT ![c] = st.declaredVariables]
  /\ usedVariables' = [usedVariables EXCEPT ![c] = st.usedVariables]

\* A results object left behind by a call that has returned, if there is one.
LeftoverResultsScan(c) ==
  IF \E d \in Calls : pc[d] = "done"
    THEN [NewScan EXCEPT !.results = results[CHOOSE d \in Calls : pc[d] = "done"]]
    ELSE NewScan

\* The variable sets left behind by a call that has returned, if there is one.
LeftoverSetsScan(c) ==
  IF \E d \in Calls : pc[d] = "done"
    THEN LET d == CHOOSE d \in Calls : pc[d] = "done"
         IN  [NewScan EXCEPT !.declaredVariables = declaredVariables[d],
                             !.usedVariables = usedVariables[d]]
    ELSE NewScan

\* What call c starts from: the results object and the locals are built anew
\* inside the function body at every call.
StartScan(c) == NewScan

\* The timer fires and the body of the call starts.  The body has no further
\* await, so it runs to completion before another pending call starts.
Begin(c) ==
  /\ pc[c] = "await"
  /\ \A d \in Calls : pc[d] # "scan"
  /\ pc' = [pc EXCEPT ![c] = "scan"]
  /\ lines' = [lines EXCEPT ![c] = split(code[c])]
  /\ index' = [index EXCEPT ![c] = 0]
  /\ Store(c, StartScan(c))
  /\ UNCHANGED code

\* One callback of the forEach; a TypeError ends the call.
ScanLine(c) ==
  /\ pc[c] = "scan"
  /\ index[c] < Len(lines[c])
  /\ LET st == LineStep(Scan(c), lines[c][index[c] + 1], index[c] + 1)
     IN  IF st.threw
           THEN /\ pc' = [pc EXCEPT ![c] = "threw"]
                /\ UNCHANGED <<index, results, inVarSection, inFunctionBlock, braceCount,
                               declaredVariables, usedVariables>>
           ELSE /\ pc' = pc
                /\ index' = [index EXCEPT ![c] = @ + 1]
                /\ Store(c, st)
  /\ UNCHANGED <<code, lines>>

\* After the last line: the document-level checks, the scores, the return.
Finalize(c) ==
  /\ pc[c] = "scan"
  /\ index[c] = Len(lines[c])
  /\ pc' = [pc EXCEPT ![c] = "done"]
  /\ results' = [results EXCEPT ![c] = Final(Scan(c), code[c])]
  /\ UNCHANGED <<code, index, lines, inVarSection, inFunctionBlock, braceCount,
                 declaredVariables, usedVariables>>

Step(c) == Begin(c) \/ ScanLine(c) \/ Finalize(c)

Next ==
  \/ \E c \in Calls : Begin(c)
  \/ \E c \in Calls : ScanLine(c)
  \/ \E c \in Calls : Finalize(c)

Spec == Init /\ [][Next]_vars

SpecConc == InitConc /\ [][Next]_vars

SpecDecl == InitDecl /\ [][Next]_vars

SpecLarge == InitLarge /\ [][Next]_vars

SpecCase == InitCase /\ [][Next]_vars

\* ------------------------------------------------------------------ claims

ReservedWordText == "'{}' is a reserved word and cannot be used as variable name"

IfThenText == "IF statement must be followed by THEN"

UnmatchedText == "Unmatched parentheses in code"

UseAssignText == "Use := for assignment, = is for comparison"

UnusedText == "Variable '{}' declared but never used"

SafetyFlagNames ==
  {"emergencyStop", "safetyInterlocks", "failSafeMechanisms", "watchdogTimer",
   "inputValidation"}

\* C1: at every point of a call (before the scan, after every scanned line and
\* after finalisation) isValid is true exactly when errors is empty.
IsValidIffNoErrors ==
  \A c \in Calls : results[c].isValid = (Len(results[c].errors) = 0)

\* A finished call whose errors hold a line-level and a document-level entry.
IsValidIffNoErrorsWitness ==
  \E c \in Calls :
    /\ pc[c] = "done"
    /\ ~results[c].isValid
    /\ \E i, j \in 1..Len(results[c].errors) :
         results[c].errors[i].line # NoLine /\ results[c].errors[j].line = NoLine

\* How far call c has come: 0 pending, 1 + lines scanned, past the last line
\* once it has ended.
Progress(c) ==
  IF pc[c] = "await" THEN 0
  ELSE IF pc[c] = "scan" THEN 1 + index[c]
  ELSE Len(lines[c]) + 2

\* C2: no input makes a call throw: a call is always pending, scanning with
\* index lines of its input behind it, or returned; every step moves it forward,
\* by one line at most, and it returns having scanned each line of its input
\* exactly once.
NeverThrowsAndTerminates ==
  /\ [](\A c \in Calls :
          /\ pc[c] \in {"await", "scan", "done"}
          /\ index[c] <= Len(lines[c])
          /\ pc[c] = "done" => (index[c] = Len(lines[c]) /\ lines[c] = split(code[c])))
  /\ [][/\ \A c \in Calls :
             /\ Progress(c)' >= Progress(c)
             /\ index'[c] \in {index[c], index[c] + 1}
        /\ \E c \in Calls : Progress(c)' > Progress(c)]_vars

\* A finished call on a program whose second line, inside a declaration
\* section, matches neither the declaration pattern nor a close parenthesis.
NeverThrowsWitness ==
  \E c \in Calls :
    /\ pc[c] = "done"
    /\ code[c] = Join(<<<<"V","A","R">>, <<"a"," ",":","="," ","(","b",";">>, <<"/","/"," ","(","e","s","t","o","p">>>>)
    /\ index[c] = 3

\* C3: two calls on the same input return identical reports.
Deterministic ==
  \A c, d \in Calls :
    (pc[c] = "done" /\ pc[d] = "done" /\ code[c] = code[d]) => results[c] = results[d]

\* Two finished calls on the unused-variable program.
DeterministicWitness ==
  \E c, d \in Calls :
    c # d /\ pc[c] = "done" /\ pc[d] = "done" /\ code[c] = ScenarioE /\ code[d] = ScenarioE

\* C4: the five safety flags are false when the scan starts, and a flag that is
\* true stays true through every later line and through finalisation.
SafetyFlagsMonotonic ==
  /\ [](\A c \in Calls :
          (pc[c] = "scan" /\ index[c] = 0) =>
            \A k \in SafetyFlagNames : ~results[c].safetyChecks[k])
  /\ [][\A c \in Calls : \A k \in SafetyFlagNames :
          (pc[c] # "await" /\ results[c].safetyChecks[k]) => results'[c].safetyChecks[k]]_vars

\* A finished call whose first line set emergencyStop and whose later lines
\* match no safety pattern.
SafetyFlagsMonotonicWitness ==
  \E c \in Calls :
    /\ pc[c] = "done"
    /\ code[c] = Join(<<<<"e","s","t","o","p"," ",":","="," ","T","R","U","E">>, <<"x"," ",":","="," ","1",";">>, <<"x"," ",":","="," ","1",";">>>>)
    /\ results[c].safetyChecks.emergencyStop

\* C5: a call that was pending together with calls on other inputs returns the
\* report it returns when run alone.
CallsIsolated ==
  \A c \in Calls : pc[c] = "done" => results[c] = performSTValidation(code[c])

\* Two calls on different inputs, pending together, have both returned.
CallsIsolatedWitness ==
  \E c, d \in Calls :
    /\ pc[c] = "done" /\ pc[d] = "done"
    /\ code[c] = ScenarioE /\ code[d] = <<"x"," ",":","="," ","(","1">>

\* C6 as stated: Scenario A yields exactly one error, the reserved-word one.
ScenarioAOneError ==
  \A c \in Calls :
    (pc[c] = "done" /\ code[c] = ScenarioA) =>
      /\ Len(results[c].errors) = 1
      /\ results[c].errors[1].category = "syntax"
      /\ results[c].errors[1].severity = "critical"
      /\ results[c].errors[1].message.text = ReservedWordText
      /\ ~results[c].isValid

\* C6 amended: Scenario A yields exactly two errors, both on line 2, syntax and
\* critical: the reserved-word error for IF, then the IF-without-THEN error;
\* isValid is false.
ScenarioATwoErrors ==
  \A c \in Calls :
    (pc[c] = "done" /\ code[c] = ScenarioA) =>
      /\ results[c].errors =
           << [type |-> "error", message |-> [text |-> ReservedWordText, arg |-> <<"I","F">>],
               line |-> 2, severity |-> "critical", category |-> "syntax"],
              [type |-> "error", message |-> [text |-> IfThenText, arg |-> <<>>],
               line |-> 2, severity |-> "critical", category |-> "syntax"] >>
      /\ ~results[c].isValid

\* A finished call on Scenario A.
ScenarioAWitness == \E c \in Calls : pc[c] = "done" /\ code[c] = ScenarioA

Count(s, ch) == Len(SelectSeq(s, LAMBDA x : x = ch))

\* Open minus close parentheses over the lines that are not blank and do not
\* start with a comment marker.
RECURSIVE BalanceOf(_)
BalanceOf(ls) ==
  IF ls = <<>> THEN 0
  ELSE (IF Skipped(trim(Head(ls))) THEN 0 ELSE Count(Head(ls), "(") - Count(Head(ls), ")"))
         + BalanceOf(Tail(ls))

\* C7: the returned report holds exactly one unmatched-parentheses error
\* (syntax, critical, no line number) and isValid is false when the balance of
\* the non-skipped lines is nonzero, and holds no such error when it is zero.
UnmatchedIffUnbalanced ==
  \A c \in Calls :
    pc[c] = "done" =>
      LET e    == results[c].errors
          hits == {i \in 1..Len(e) : e[i].message.text = UnmatchedText}
      IN  IF BalanceOf(split(code[c])) # 0
            THEN /\ Cardinality(hits) = 1
                 /\ \A i \in hits :
                      e[i] = [type |-> "error",
                              message |-> [text |-> UnmatchedText, arg |-> <<>>],
                              line |-> NoLine, severity |-> "critical",
                              category |-> "syntax"]
                 /\ ~results[c].isValid
            ELSE hits = {}

\* A finished call on an unbalanced program that also has line-level errors.
UnmatchedWitness ==
  \E c \in Calls :
    /\ pc[c] = "done"
    /\ BalanceOf(split(code[c])) # 0
    /\ Len(results[c].errors) >= 3

\* C8 as stated: Scenario C yields one warning, the one recommending :=.
ScenarioCOneWarning ==
  \A c \in Calls :
    (pc[c] = "done" /\ code[c] = ScenarioC) =>
      /\ Len(results[c].warnings) = 1
      /\ results[c].warnings[1].message.text = UseAssignText
      /\ results[c].isValid
      /\ results[c].errors = <<>>

\* C8 amended: Scenario C yields two warnings, the one recommending := on
\* line 4 and then the unused-variable warning for A; there is no error and
\* isValid is true.
ScenarioCTwoWarnings ==
  \A c \in Calls :
    (pc[c] = "done" /\ code[c] = ScenarioC) =>
      /\ results[c].warnings =
           << [type |-> "warning", message |-> [text |-> UseAssignText, arg |-> <<>>],
               line |-> 4, severity |-> "medium", category |-> "syntax"],
              [type |-> "warning", message |-> [text |-> UnusedText, arg |-> <<"A">>],
               line |-> NoLine, severity |-> "low", category |-> "style"] >>
      /\ results[c].isValid
      /\ results[c].errors = <<>>

\* A finished call on Scenario C.
ScenarioCWitness == \E c \in Calls : pc[c] = "done" /\ code[c] = ScenarioC

\* C9: the finalisation step appends to warnings exactly one unused-variable
\* warning (style, low, no line number) for each name of declaredVariables that
\* is not in usedVariables, each name once, and none for the others; it appends
\* nothing to errors but the unmatched-parentheses error; Scenario E ends with
\* one warning and no error.
UnusedWarningsAtFinalization ==
  [][\A c \in Calls :
       (pc[c] = "scan" /\ pc'[c] = "done") =>
         LET expected == SelectSeq(declaredVariables[c],
                                   LAMBDA v : v \notin Range(usedVariables[c]))
             w  == results[c].warnings
             w2 == results'[c].warnings
             e  == results[c].errors
             e2 == results'[c].errors
         IN  /\ \A i, j \in 1..Len(expected) : expected[i] = expected[j] => i = j
             /\ Len(w2) = Len(w) + Len(expected)
             /\ SubSeq(w2, 1, Len(w)) = w
             /\ \A i \in 1..Len(expected) :
                  w2[Len(w) + i] = [type |-> "warning",
                                    message |-> [text |-> UnusedText, arg |-> expected[i]],
                                    line |-> NoLine, severity |-> "low",
                                    category |-> "style"]
             /\ \/ e2 = e
                \/ /\ Len(e2) = Len(e) + 1
                   /\ SubSeq(e2, 1, Len(e)) = e
                   /\ e2[Len(e2)].message.text = UnmatchedText
             /\ code[c] = ScenarioE => (Len(w2) = 1 /\ e2 = <<>>)]_vars

\* A finished call on Scenario E: one declared name, never assigned.
UnusedWarningsWitness ==
  \E c \in Calls :
    /\ pc[c] = "done"
    /\ code[c] = ScenarioE
    /\ declaredVariables[c] = <<<<"U","N","U","S","E","D","_","V","A","R">>>>
    /\ usedVariables[c] = <<>>
    /\ Len(results[c].warnings) = 1

\* C10: the returned syntaxScore is max(0, 100 - 15*|errors| - 5*|warnings|) over
\* the final lists; two errors and one warning give 65.
SyntaxScoreFormula ==
  \A c \in Calls :
    pc[c] = "done" =>
      LET penalty == 15 * Len(results[c].errors) + 5 * Len(results[c].warnings)
      IN  /\ results[c].syntaxScore = (IF penalty > 100 THEN 0 ELSE 100 - penalty)
          /\ (Len(results[c].errors) = 2 /\ Len(results[c].warnings) = 1)
               => results[c].syntaxScore = 65

\* A finished call whose penalty exceeds 100 and whose score is clamped to 0.
SyntaxScoreWitness ==
  \E c \in Calls :
    /\ pc[c] = "done"
    /\ 15 * Len(results[c].errors) + 5 * Len(results[c].warnings) > 100
    /\ results[c].syntaxScore = 0


\* C11: every entry ever appended to errors is an error of category syntax and
\* severity critical, so the logic score, which counts the errors of category
\* semantics, is 100 at every point of every call.
LogicScoreAlways100 ==
  \A c \in Calls :
    /\ \A i \in 1..Len(results[c].errors) :
         /\ results[c].errors[i].type = "error"
         /\ results[c].errors[i].category = "syntax"
         /\ results[c].errors[i].severity = "critical"
    /\ results[c].logicScore = 100

\* A returned report with line-level errors and the document-level error, whose
\* logic score has been computed.
LogicScoreWitness ==
  \E c \in Calls :
    /\ pc[c] = "done"
    /\ Len(results[c].errors) >= 3
    /\ \E i \in 1..Len(results[c].errors) : results[c].errors[i].message.text = UnmatchedText
    /\ \E i \in 1..Len(results[c].errors) : results[c].errors[i].message.text = ReservedWordText
    /\ results[c].logicScore = 100

\* The words of the emergency-stop pattern, in upper case.
EmergencyWords == { <<"E","M","E","R","G","E","N","C","Y">>, <<"E","_","S","T","O","P">>, <<"E","S","T","O","P">>, <<"S","A","F","E","T","Y">> }

\* The line is blank, or its first characters after the leading white space are
\* a comment marker.
BlankOrComment(line) ==
  LET t == trim(line)
  IN  t = <<>> \/ startsWith(t, <<"(","*">>) \/ startsWith(t, <<"/","/">>)

\* The line is scanned (not blank, not a whole-line comment) and holds one of
\* the emergency-stop words in any letter case.
MentionsEmergency(line) ==
  /\ ~BlankOrComment(line)
  /\ \E w \in EmergencyWords : includes(toUpperCase(line), w)

\* C12: the safety score of a returned report is min(100, 20 * number of true
\* safety flags), a multiple of 20 between 0 and 100; an input with a scanned
\* line holding 'emergency', 'e_stop', 'estop' or 'safety' in any letter case
\* has emergencyStop true and a safety score of at least 20.
SafetyScoreFormula ==
  \A c \in Calls :
    pc[c] = "done" =>
      LET sc == results[c].safetyChecks
          n  == Cardinality({k \in SafetyFlagNames : sc[k]})
      IN  /\ DOMAIN sc = SafetyFlagNames
          /\ results[c].safetyScore = (IF 20 * n < 100 THEN 20 * n ELSE 100)
          /\ results[c].safetyScore \in {0, 20, 40, 60, 80, 100}
          /\ (\E i \in 1..Len(lines[c]) : MentionsEmergency(lines[c][i])) =>
               /\ sc.emergencyStop
               /\ results[c].safetyScore >= 20

\* A returned report with all five flags set, one of them by a mixed-case
\* 'E_Stop' line.
SafetyScoreWitness ==
  \E c \in Calls :
    /\ pc[c] = "done"
    /\ \E i \in 1..Len(lines[c]) : MentionsEmergency(lines[c][i])
    /\ \A k \in SafetyFlagNames : results[c].safetyChecks[k]
    /\ results[c].safetyScore = 100

\* Every line of the text is blank or a whole-line comment.
AllSkipped(text) ==
  LET ls == split(text) IN \A i \in 1..Len(ls) : BlankOrComment(ls[i])

\* C13: for the empty string, a whitespace-only text, or a text of blank and
\* whole-line comment lines only, the returned report has no errors and no
\* warnings, isValid true, no declared variables, every safety flag false,
\* syntax score 100, logic score 100 and safety score 0.
DegenerateInputNeutral ==
  \A c \in Calls :
    (pc[c] = "done" /\ AllSkipped(code[c])) =>
      /\ results[c].errors = <<>>
      /\ results[c].warnings = <<>>
      /\ results[c].isValid
      /\ declaredVariables[c] = <<>>
      /\ \A k \in SafetyFlagNames : ~results[c].safetyChecks[k]
      /\ results[c].syntaxScore = 100
      /\ results[c].logicScore = 100
      /\ results[c].safetyScore = 0

\* A returned report for a text of several lines, all blank or comments, among
\* them a whitespace-only line and a comment line holding a parenthesis and a
\* safety word.
DegenerateInputWitness ==
  \E c \in Calls :
    /\ pc[c] = "done"
    /\ AllSkipped(code[c])
    /\ Len(lines[c]) >= 2
    /\ \E i \in 1..Len(lines[c]) : lines[c][i] # <<>> /\ trim(lines[c][i]) = <<>>
    /\ \E i \in 1..Len(lines[c]) : lines[c][i] = <<"/","/"," ","(","e","s","t","o","p">>

ForToText == "FOR statement missing TO keyword"

WhileDoText == "WHILE statement missing DO keyword"

CaseOfText == "CASE statement missing OF keyword"

\* The four keyword pairs: the opener with its space, the closer, the message.
KeywordPairs ==
  { [opener |-> <<"I","F"," ">>, closer |-> <<"T","H","E","N">>, text |-> IfThenText],
    [opener |-> <<"F","O","R"," ">>, closer |-> <<"T","O">>, text |-> ForToText],
    [opener |-> <<"W","H","I","L","E"," ">>, closer |-> <<"D","O">>, text |-> WhileDoText],
    [opener |-> <<"C","A","S","E"," ">>, closer |-> <<"O","F">>, text |-> CaseOfText] }

\* The upper-cased trimmed line holds the opener of the pair and not its closer.
OpenerWithoutCloser(line, pair) ==
  /\ includes(toUpperCase(trim(line)), pair.opener)
  /\ ~includes(toUpperCase(trim(line)), pair.closer)

\* Prose: no line opens a declaration section, holds ':=' or holds a parenthesis.
Prose(text) ==
  LET ls == split(text)
  IN  \A i \in 1..Len(ls) :
        /\ ~startsWith(toUpperCase(trim(ls[i])), <<"V","A","R">>)
        /\ ~includes(ls[i], <<":","=">>)
        /\ ~includes(ls[i], <<"(">>)
        /\ ~includes(ls[i], <<")">>)

\* The scanned lines of the text that hold the opener of a keyword pair without
\* its closer, each with the pair.
ProseTrips(text) ==
  LET ls == split(text)
  IN  {t \in (1..Len(ls)) \X KeywordPairs :
         ~BlankOrComment(ls[t[1]]) /\ OpenerWithoutCloser(ls[t[1]], t[2])}

\* C14 as stated: prose (no declaration section, no ':=', no parentheses)
\* returns zero declared variables and zero errors, so isValid is true.
ProseNoErrors ==
  \A c \in Calls :
    (pc[c] = "done" /\ Prose(code[c])) =>
      /\ declaredVariables[c] = <<>>
      /\ results[c].errors = <<>>
      /\ results[c].isValid

\* C14, amended: prose returns zero declared variables, and its errors are the
\* keyword-pair errors of its lines, one for each scanned line and each pair
\* whose opener occurs in the line without the closer; errors is empty and
\* isValid true exactly when no line holds such an opener.
ProseOnlyKeywordErrors ==
  \A c \in Calls :
    (pc[c] = "done" /\ Prose(code[c])) =>
      LET errs == results[c].errors
      IN  /\ declaredVariables[c] = <<>>
          /\ Len(errs) = Cardinality(ProseTrips(code[c]))
          /\ \A t \in ProseTrips(code[c]) :
               \E i \in 1..Len(errs) : errs[i].line = t[1] /\ errs[i].message.text = t[2].text
          /\ results[c].isValid = (ProseTrips(code[c]) = {})

\* A returned report for prose with a clean sentence and the sentence
\* 'wait for it', which gets the FOR error.
ProseWitness ==
  \E c \in Calls :
    /\ pc[c] = "done"
    /\ Prose(code[c])
    /\ \E i \in 1..Len(lines[c]) : lines[c][i] = <<"h","e","l","l","o"," ","w","o","r","l","d">>
    /\ \E i \in 1..Len(lines[c]) : lines[c][i] = <<"w","a","i","t"," ","f","o","r"," ","i","t">>
    /\ ~results[c].isValid
    /\ \E i \in 1..Len(results[c].errors) : results[c].errors[i].message.text = ForToText

\* The section-opening keywords of the VAR family.
VarFamily ==
  { <<"V","A","R">>, <<"V","A","R","_","I","N","P","U","T">>, <<"V","A","R","_","O","U","T","P","U","T">>, <<"V","A","R","_","I","N","_","O","U","T">>, <<"V","A","R","_","T","E","M","P">>, <<"V","A","R","_","E","X","T","E","R","N","A","L">>,
    <<"V","A","R","_","G","L","O","B","A","L">> }

\* The first word of the upper-cased trimmed line.
LeadingWord(line) ==
  LET u == toUpperCase(trim(line)) IN SubSeq(u, 1, WordRunEnd(u, 1))

\* The callback for line n of call c runs in this step.
ScansLine(c, n) == pc[c] = "scan" /\ n <= Len(lines[c]) /\ index[c] = n - 1 /\ index'[c] = n

\* C15 as stated: the section tracker enters a declaration section only on a
\* line whose first word is a keyword of the VAR family, leaves it only on a
\* line whose upper-cased trimmed text is exactly END_VAR, and every other line
\* leaves the section state as it was.
SectionTrackerAsStated ==
  [][\A c \in Calls : \A n \in 1..MaxLines :
       ScansLine(c, n) =>
         LET line == lines[c][n]
         IN  inVarSection'[c] =
               IF BlankOrComment(line) THEN inVarSection[c]
               ELSE IF toUpperCase(trim(line)) = <<"E","N","D","_","V","A","R">> THEN FALSE
               ELSE IF LeadingWord(line) \in VarFamily THEN TRUE
               ELSE inVarSection[c]]_vars

\* C16: the callback of a skipped line (blank after trimming, or starting with
\* a comment marker) changes nothing in the scan: the section state, the
\* parenthesis balance, the declared and used variables, every safety and
\* compliance flag, the errors, the warnings and all the rest of the report
\* are as they were before the line.
SkippedLineChangesNothing ==
  [][\A c \in Calls : \A n \in 1..MaxLines :
       (ScansLine(c, n) /\ BlankOrComment(lines[c][n])) =>
         /\ results'[c] = results[c]
         /\ inVarSection'[c] = inVarSection[c]
         /\ inFunctionBlock'[c] = inFunctionBlock[c]
         /\ braceCount'[c] = braceCount[c]
         /\ declaredVariables'[c] = declaredVariables[c]
         /\ usedVariables'[c] = usedVariables[c]]_vars

\* Inside a declaration section with a declared variable, the scan has just
\* passed a comment line that holds a parenthesis and a safety word.
SkippedLineWitness ==
  \E c \in Calls :
    /\ pc[c] = "scan"
    /\ index[c] = 3
    /\ lines[c][3] = <<"/","/"," ","(","e","s","t","o","p">>
    /\ inVarSection[c]
    /\ declaredVariables[c] # <<>>
    /\ braceCount[c] = 0
    /\ ~results[c].safetyChecks.emergencyStop

\* The entries of a list of diagnostics with the given message text and line.
Entries(list, text, n) ==
  SelectSeq(list, LAMBDA d : d.message.text = text /\ d.line = n)

\* The IF rule of a line: scanned, 'IF ' in the upper-cased text, no 'THEN'
\* in it, no ':=' in the line.
IfWithoutThen(line) ==
  /\ ~BlankOrComment(line)
  /\ includes(toUpperCase(trim(line)), <<"I","F"," ">>)
  /\ ~includes(toUpperCase(trim(line)), <<"T","H","E","N">>)
  /\ ~includes(line, <<":","=">>)

\* C17: in the returned report each line has exactly one error 'IF statement
\* must be followed by THEN' (syntax, critical, carrying the line's 1-based
\* number) when it is scanned, its upper-cased text holds 'IF ' and no 'THEN'
\* and it holds no ':=', and has none otherwise, whatever the lines before it;
\* such a line clears isValid.
IfRulePerLine ==
  \A c \in Calls :
    pc[c] = "done" =>
      /\ \A n \in 1..Len(lines[c]) :
           LET es == Entries(results[c].errors, IfThenText, n)
           IN  IF IfWithoutThen(lines[c][n])
                 THEN /\ Len(es) = 1
                      /\ es[1] = [type |-> "error", message |-> [text |-> IfThenText, arg |-> <<>>],
                                  line |-> n, severity |-> "critical", category |-> "syntax"]
                      /\ ~results[c].isValid
                 ELSE es = <<>>
      /\ \A i \in 1..Len(results[c].errors) :
           results[c].errors[i].message.text = IfThenText =>
             results[c].errors[i].line \in 1..Len(lines[c])

\* A returned report for an assignment that holds 'IF ' followed by an IF line
\* without THEN: the one IF error is on line 2.
IfRuleWitness ==
  \E c \in Calls :
    /\ pc[c] = "done"
    /\ lines[c] = << <<"b"," ",":","="," ","I","F"," ","a">>, <<"i","f"," ","a">> >>
    /\ Entries(results[c].errors, IfThenText, 1) = <<>>
    /\ Len(Entries(results[c].errors, IfThenText, 2)) = 1

\* The pairs of C18.
LoopPairs == {p \in KeywordPairs : p.text \in {ForToText, WhileDoText, CaseOfText}}

\* C18: for each of the pairs (FOR, TO), (WHILE, DO), (CASE, OF), in the
\* returned report a line has exactly one error with the message of the pair
\* (syntax, critical, carrying the line number) when it is scanned and its
\* upper-cased text holds the opener followed by a space and not the closer,
\* and has none otherwise; the rules do not depend on one another, so one line
\* can have several of these errors.
LoopRulesPerLine ==
  \A c \in Calls :
    pc[c] = "done" =>
      \A p \in LoopPairs :
        /\ \A n \in 1..Len(lines[c]) :
             LET es == Entries(results[c].errors, p.text, n)
             IN  IF ~BlankOrComment(lines[c][n]) /\ OpenerWithoutCloser(lines[c][n], p)
                   THEN /\ Len(es) = 1
                        /\ es[1] = [type |-> "error", message |-> [text |-> p.text, arg |-> <<>>],
                                    line |-> n, severity |-> "critical", category |-> "syntax"]
                        /\ ~results[c].isValid
                   ELSE es = <<>>
        /\ \A i \in 1..Len(results[c].errors) :
             results[c].errors[i].message.text = p.text =>
               results[c].errors[i].line \in 1..Len(lines[c])

\* A returned report for a FOR line that holds TO, which has none of the
\* errors, followed by a line that has the three errors at once.
LoopRulesWitness ==
  \E c \in Calls :
    /\ pc[c] = "done"
    /\ lines[c] = << <<"F","O","R"," ","i"," ",":","="," ","1"," ","T","O"," ","3"," ","D","O">>, <<"f","o","r"," ","x"," ","w","h","i","l","e"," ","y"," ","c","a","s","e"," ","z">> >>
    /\ \A p \in LoopPairs :
         /\ Entries(results[c].errors, p.text, 1) = <<>>
         /\ Len(Entries(results[c].errors, p.text, 2)) = 1
    /\ Len(results[c].errors) = 3

\* The line holds an equals sign that is not the second character of ':=', '<='
\* or '>='.
HasBareEquals(line) ==
  \E i \in 1..Len(line) :
    line[i] = "=" /\ (i = 1 \/ line[i - 1] \notin {":", "<", ">"})

\* The line holds ':=', '<=', '>=' or '<>' somewhere.
HasOtherOperator(line) ==
  includes(line, <<":","=">>) \/ includes(line, <<"<","=">>) \/ includes(line, <<">","=">>)
    \/ includes(line, <<"<",">">>)

\* The upper-cased line holds 'IF '.
IfLine(line) == includes(toUpperCase(trim(line)), <<"I","F"," ">>)

UseAssignWarning(n) ==
  [type |-> "warning", message |-> [text |-> UseAssignText, arg |-> <<>>], line |-> n,
   severity |-> "medium", category |-> "syntax"]

\* C19 as stated: a scanned line that is not an IF line and holds a bare '='
\* has the warning 'Use := for assignment, = is for comparison' (syntax,
\* medium), also when it holds ':=' or a comparison operator elsewhere; a line
\* with no bare '=' never has it.
BareEqualsAlwaysWarned ==
  \A c \in Calls :
    pc[c] = "done" =>
      \A n \in 1..Len(lines[c]) :
        LET ws == Entries(results[c].warnings, UseAssignText, n)
        IN  /\ (~BlankOrComment(lines[c][n]) /\ ~IfLine(lines[c][n])
                  /\ HasBareEquals(lines[c][n])) => ws = <<UseAssignWarning(n)>>
            /\ ~HasBareEquals(lines[c][n]) => ws = <<>>

\* C19, amended: a line has the warning 'Use := for assignment, = is for
\* comparison' (syntax, medium, once) exactly when it is scanned, holds '=',
\* holds none of ':=', '<=', '>=', '<>' anywhere, and is not an IF line; so a
\* bare '=' on a line that also holds one of these operators is not warned
\* about, and a line with no bare '=' never has the warning.
EqualsWarnedUnlessOtherOperator ==
  \A c \in Calls :
    pc[c] = "done" =>
      \A n \in 1..Len(lines[c]) :
        LET ws   == Entries(results[c].warnings, UseAssignText, n)
            line == lines[c][n]
        IN  /\ IF ~BlankOrComment(line) /\ includes(line, <<"=">>) /\ ~HasOtherOperator(line)
                    /\ ~IfLine(line)
                 THEN ws = <<UseAssignWarning(n)>>
                 ELSE ws = <<>>
            /\ ~HasBareEquals(line) => ws = <<>>
            /\ (HasBareEquals(line) /\ HasOtherOperator(line)) => ws = <<>>

\* A returned report for 'a = 1', which is warned about, followed by
\* 'a := b = c;', whose bare '=' is not.
EqualsWarnedWitness ==
  \E c \in Calls :
    /\ pc[c] = "done"
    /\ lines[c] = << <<"a"," ","="," ","1">>, <<"a"," ",":","="," ","b"," ","="," ","c",";">> >>
    /\ HasBareEquals(lines[c][2])
    /\ Entries(results[c].warnings, UseAssignText, 1) = <<UseAssignWarning(1)>>
    /\ Entries(results[c].warnings, UseAssignText, 2) = <<>>

SemicolonText == "Statement should end with semicolon"

\* A statement the semicolon rule looks at, without its semicolon.
LacksSemicolon(line) ==
  /\ \/ includes(line, <<":","=">>)
     \/ startsWith(toUpperCase(trim(line)), <<"R","E","T","U","R","N">>)
     \/ includes(toUpperCase(trim(line)), <<"E","X","I","T">>)
  /\ ~endsWith(trim(line), <<";">>)

\* C20: the callback of a line appends the warning 'Statement should end with
\* semicolon' (style, medium, once, carrying the line number) exactly when the
\* line is scanned, the scan is outside a declaration section after the section
\* update for that line, the line holds ':=' or its upper-cased text starts
\* with RETURN or holds EXIT, and its trimmed text does not end with ';'; a
\* line inside a declaration section never gets it.
SemicolonRule ==
  [][\A c \in Calls : \A n \in 1..MaxLines :
       ScansLine(c, n) =>
         LET before == Entries(results[c].warnings, SemicolonText, n)
             after  == Entries(results'[c].warnings, SemicolonText, n)
         IN  /\ before = <<>>
             /\ IF ~BlankOrComment(lines[c][n]) /\ ~inVarSection'[c] /\ LacksSemicolon(lines[c][n])
                  THEN after = <<[type |-> "warning",
                                  message |-> [text |-> SemicolonText, arg |-> <<>>],
                                  line |-> n, severity |-> "medium", category |-> "style"]>>
                  ELSE after = <<>>
             /\ \A m \in 1..MaxLines : m # n =>
                  Entries(results'[c].warnings, SemicolonText, m)
                    = Entries(results[c].warnings, SemicolonText, m)]_vars

\* A returned report for 'x := 1' outside a section, VAR, and 'x := 1' inside
\* it: the one semicolon warning is on line 1.
SemicolonWitness ==
  \E c \in Calls :
    /\ pc[c] = "done"
    /\ lines[c] = << <<"x"," ",":","="," ","1">>, <<"V","A","R">>, <<"x"," ",":","="," ","1">> >>
    /\ inVarSection[c]
    /\ Len(Entries(results[c].warnings, SemicolonText, 1)) = 1
    /\ Entries(results[c].warnings, SemicolonText, 3) = <<>>

NonStandardText == "Non-standard data type '{}' used"

NamingText == "Variable '{}' doesn't follow IEC 61131-3 naming convention"

\* The identifier and the type token of a line of the shape
\* '<identifier> : <type>', as the declaration pattern captures them.
DeclOf(line) == DeclMatch(trim(line))

\* The callback of the line parses it as a declaration: the line is scanned
\* inside a declaration section, holds ':', does not begin with VAR and has the
\* shape '<identifier> : <type>'.
ParsedAsDeclaration(inSection, line) ==
  /\ ~BlankOrComment(line)
  /\ inSection
  /\ includes(line, <<":">>)
  /\ ~startsWith(toUpperCase(trim(line)), <<"V","A","R">>)
  /\ DeclOf(line).found

\* C21: the callback of a line parsed as a declaration '<identifier> : <type>'
\* inside a declaration section adds the upper-cased identifier to
\* declaredVariables and, for the type token, either sets dataTypeUsage and
\* appends no type warning (the token is, in any letter case, a standard
\* elementary type) or appends one warning 'Non-standard data type' (iec61131,
\* medium) and leaves dataTypeUsage as it was; the callback of any other line,
\* among them every line outside a declaration section and every section
\* keyword line, declares nothing and touches neither.
DeclarationParsing ==
  [][\A c \in Calls : \A n \in 1..Len(lines[c]) :
       ScansLine(c, n) =>
         LET line   == lines[c][n]
             before == Entries(results[c].warnings, NonStandardText, n)
             after  == Entries(results'[c].warnings, NonStandardText, n)
             usage  == results[c].iecCompliance.dataTypeUsage
             usage2 == results'[c].iecCompliance.dataTypeUsage
         IN  /\ before = <<>>
             /\ IF ParsedAsDeclaration(inVarSection[c], line)
                  THEN LET varName  == DeclOf(line).groups[2]
                           dataType == DeclOf(line).groups[3]
                       IN  /\ declaredVariables'[c]
                                = SetAdd(declaredVariables[c], toUpperCase(varName))
                           /\ IF toUpperCase(dataType) \in standardDataTypes
                                THEN usage2 /\ after = <<>>
                                ELSE /\ usage2 = usage
                                     /\ after = <<[type |-> "warning",
                                                   message |-> [text |-> NonStandardText,
                                                                arg |-> dataType],
                                                   line |-> n, severity |-> "medium",
                                                   category |-> "iec61131"]>>
                  ELSE /\ declaredVariables'[c] = declaredVariables[c]
                       /\ usage2 = usage
                       /\ after = <<>>
             /\ (~inVarSection[c] \/ LeadingWord(line) \in VarFamily) =>
                  /\ declaredVariables'[c] = declaredVariables[c]
                  /\ usage2 = usage
                  /\ after = <<>>]_vars

\* A returned report for a section with a declaration of a standard type in
\* lower case and one of a non-standard type: both names are declared, the
\* flag is set, the one type warning is on line 3.
DeclarationParsingWitness ==
  \E c \in Calls :
    /\ pc[c] = "done"
    /\ lines[c] = << <<"V","A","R">>, <<"1","s","t"," ",":"," ","r","e","a","l",";">>, <<"y"," ",":"," ","M","y","T","y","p","e",";">>, <<"E","N","D","_","V","A","R">> >>
    /\ declaredVariables[c] = << <<"1","S","T">>, <<"Y">> >>
    /\ results[c].iecCompliance.dataTypeUsage
    /\ Entries(results[c].warnings, NonStandardText, 2) = <<>>
    /\ Len(Entries(results[c].warnings, NonStandardText, 3)) = 1

\* A letter followed by letters, digits and underscores only.
FollowsConvention(name) ==
  /\ Len(name) >= 1
  /\ name[1] \in LetterSet
  /\ \A i \in 2..Len(name) : name[i] \in LetterSet \cup Range(Digits) \cup {"_"}

\* The callback for line n of call c parses a declaration whose identifier
\* breaks the naming convention.
ParsesBadName(c, n) ==
  /\ ScansLine(c, n)
  /\ ParsedAsDeclaration(inVarSection[c], lines[c][n])
  /\ ~FollowsConvention(DeclOf(lines[c][n]).groups[2])

\* C22: variableDeclaration, dataTypeUsage and structureCompliance are false
\* and namingConvention is true when the scan starts; the first three only
\* ever change from false to true; namingConvention changes only from true to
\* false, only in the callback of a parsed declaration whose identifier is not
\* a letter followed by letters, digits and underscores, which also appends
\* one warning (iec61131, medium) for the line, and once false it stays false.
ComplianceFlags ==
  /\ [](\A c \in Calls :
          (pc[c] = "await" \/ (pc[c] = "scan" /\ index[c] = 0)) =>
            results[c].iecCompliance
              = [variableDeclaration |-> FALSE, dataTypeUsage |-> FALSE,
                 structureCompliance |-> FALSE, namingConvention |-> TRUE])
  /\ [][\A c \in Calls :
          LET f == results[c].iecCompliance
              g == results'[c].iecCompliance
          IN  /\ \A k \in {"variableDeclaration", "dataTypeUsage", "structureCompliance"} :
                   f[k] => g[k]
              /\ ~f.namingConvention => ~g.namingConvention
              /\ (f.namingConvention /\ ~g.namingConvention) =>
                   \E n \in 1..Len(lines[c]) : ParsesBadName(c, n)
              /\ \A n \in 1..Len(lines[c]) :
                   ParsesBadName(c, n) =>
                     /\ ~g.namingConvention
                     /\ Entries(results[c].warnings, NamingText, n) = <<>>
                     /\ Entries(results'[c].warnings, NamingText, n)
                          = <<[type |-> "warning",
                               message |-> [text |-> NamingText,
                                            arg |-> DeclOf(lines[c][n]).groups[2]],
                               line |-> n, severity |-> "medium", category |-> "iec61131"]>>]_vars

\* A returned report for a section with a name that starts with a digit
\* followed by a line that closes an IF: namingConvention is false and the
\* three other flags are true.
ComplianceFlagsWitness ==
  \E c \in Calls :
    /\ pc[c] = "done"
    /\ lines[c] = << <<"V","A","R">>, <<"1","s","t"," ",":"," ","r","e","a","l",";">>, <<"E","N","D","_","I","F",";">>, <<"E","N","D","_","V","A","R">> >>
    /\ ~results[c].iecCompliance.namingConvention
    /\ results[c].iecCompliance.variableDeclaration
    /\ results[c].iecCompliance.dataTypeUsage
    /\ results[c].iecCompliance.structureCompliance
    /\ Len(Entries(results[c].warnings, NamingText, 2)) = 1

\* C23: the callback of a parsed declaration whose identifier is, in any
\* letter case, a reserved word appends exactly one reserved-word error
\* (syntax, critical, carrying the line number of the declaration) and leaves
\* isValid false; the callback of a parsed declaration whose identifier is not
\* reserved, and of a line that is not parsed as a declaration, appends no
\* reserved-word error.
ReservedWordRule ==
  [][\A c \in Calls : \A n \in 1..Len(lines[c]) :
       ScansLine(c, n) =>
         LET line   == lines[c][n]
             before == Entries(results[c].errors, ReservedWordText, n)
             after  == Entries(results'[c].errors, ReservedWordText, n)
         IN  /\ before = <<>>
             /\ IF /\ ParsedAsDeclaration(inVarSection[c], line)
                   /\ toUpperCase(DeclOf(line).groups[2]) \in reservedWords
                  THEN /\ after = <<[type |-> "error",
                                     message |-> [text |-> ReservedWordText,
                                                  arg |-> DeclOf(line).groups[2]],
                                     line |-> n, severity |-> "critical",
                                     category |-> "syntax"]>>
                       /\ ~results'[c].isValid
                  ELSE after = <<>>]_vars

\* A returned report for a section that declares 'if' in lower case and then
\* 'x': the one reserved-word error is on line 2 and isValid is false.
ReservedWordWitness ==
  \E c \in Calls :
    /\ pc[c] = "done"
    /\ lines[c] = << <<"V","A","R">>, <<"i","f"," ",":"," ","B","O","O","L",";">>, <<"x"," ",":"," ","I","N","T",";">>, <<"E","N","D","_","V","A","R">> >>
    /\ Len(Entries(results[c].errors, ReservedWordText, 2)) = 1
    /\ Entries(results[c].errors, ReservedWordText, 3) = <<>>
    /\ ~results[c].isValid

\* The positions of the trimmed line where an assignment target
\* '<identifier> :=' begins.
TargetStarts(line) ==
  LET s == trim(line)
  IN  {i \in 1..Len(s) : AssignMatchAt(s, i) /\ (i = 1 \/ ~IsWordChar(s[i - 1]))}

\* The upper-cased assignment targets of a scanned line.
Targets(line) ==
  IF BlankOrComment(line) THEN {}
  ELSE {toUpperCase(SubSeq(trim(line), i, WordRunEnd(trim(line), i))) : i \in TargetStarts(line)}

\* The upper-cased first assignment target of a scanned line, if it has one.
FirstTarget(line) ==
  IF BlankOrComment(line) \/ TargetStarts(line) = {} THEN {}
  ELSE LET i == MinOf(TargetStarts(line))
       IN  {toUpperCase(SubSeq(trim(line), i, WordRunEnd(trim(line), i)))}

\* The names of the unused-variable warnings of a report.
ReportedUnused(r) ==
  {r.warnings[i].message.arg : i \in {j \in 1..Len(r.warnings) :
                                        r.warnings[j].message.text = UnusedText}}

\* C24 as stated: at the end of the scan usedVariables holds the upper-cased
\* name of every assignment target of every scanned line, so no declared
\* variable that is assigned somewhere is reported as unused.
EveryTargetUsed ==
  \A c \in Calls :
    pc[c] = "done" =>
      \A n \in 1..Len(lines[c]) : \A t \in Targets(lines[c][n]) :
        /\ t \in Range(usedVariables[c])
        /\ t \notin ReportedUnused(results[c])

\* C24, amended: at the end of the scan usedVariables holds exactly the
\* upper-cased first assignment target of each scanned line that has one
\* (declaration lines included, where the target of a default-value clause is
\* the type token), and the declared variables reported as unused are exactly
\* those that are the first target of no line.
FirstTargetUsed ==
  \A c \in Calls :
    pc[c] = "done" =>
      LET firsts == UNION {FirstTarget(lines[c][n]) : n \in 1..Len(lines[c])}
      IN  /\ Range(usedVariables[c]) = firsts
          /\ ReportedUnused(results[c]) = Range(declaredVariables[c]) \ firsts

\* A returned report for a section that declares x and y followed by
\* 'x := 1; y := 2;': X is used, Y is not and is reported as unused.
FirstTargetWitness ==
  \E c \in Calls :
    /\ pc[c] = "done"
    /\ lines[c] = << <<"V","A","R">>, <<"x"," ",":"," ","I","N","T",";">>, <<"y"," ",":"," ","M","y","T","y","p","e",";">>, <<"E","N","D","_","V","A","R">>, <<"x"," ",":","="," ","1",";"," ","y"," ",":","="," ","2",";">> >>
    /\ usedVariables[c] = << <<"X">> >>
    /\ ReportedUnused(results[c]) = { <<"Y">> }

\* Default values of a declaration.
DefaultValues == { <<"5">>, <<"T","R","U","E">> }

\* The declaration 'x : T;' with the default-value clause ':= v' put before its
\* semicolon.
WithDefault(line, v) == SubSeq(line, 1, Len(line) - 1) \o <<" ",":","="," ">> \o v \o <<";">>

\* Line n of the lines ls is a declaration 'x : T;' with no clause, parsed
\* inside a declaration section.
PlainDeclarationAt(ls, n) ==
  /\ ParsedAsDeclaration(ScanFrom(NewScan, SubSeq(ls, 1, n - 1), 1).inVarSection, ls[n])
  /\ ls[n] = DeclOf(ls[n]).groups[1] \o <<";">>

\* C25 as stated: giving a declaration 'x : T;' inside a declaration section
\* the default-value clause ':= v' changes nothing in the report (errors,
\* warnings, isValid, flags, scores) and records no further name in
\* usedVariables.
DefaultClauseIgnored ==
  \A c \in Calls :
    pc[c] = "done" =>
      \A n \in 1..Len(lines[c]) : \A v \in DefaultValues :
        PlainDeclarationAt(lines[c], n) =>
          LET other == Join([lines[c] EXCEPT ![n] = WithDefault(@, v)])
              scan  == ScanFrom(NewScan, split(other), 1)
              r     == Final(scan, other)
          IN  /\ r.errors = results[c].errors
              /\ r.warnings = results[c].warnings
              /\ r.isValid = results[c].isValid
              /\ r.safetyChecks = results[c].safetyChecks
              /\ r.iecCompliance = results[c].iecCompliance
              /\ r.syntaxScore = results[c].syntaxScore
              /\ r.logicScore = results[c].logicScore
              /\ r.safetyScore = results[c].safetyScore
              /\ scan.usedVariables = usedVariables[c]

\* The entries with a line number are in non-decreasing order of line number,
\* and no entry with a line number follows one without.
InLineOrder(list) ==
  \A i, j \in 1..Len(list) :
    (i < j /\ list[j].line # NoLine) =>
      /\ list[i].line # NoLine
      /\ list[i].line <= list[j].line

\* The list new is the list old with entries appended.
Extends(new, old) == Len(new) >= Len(old) /\ SubSeq(new, 1, Len(old)) = old

\* C26: in errors and in warnings the entries that carry a line number are in
\* non-decreasing order of line number and every entry without a line number
\* (the unmatched-parentheses error, the unused-variable warnings) comes after
\* all of them; every step of a call only appends to the two lists, so no
\* entry is removed or moved once appended.
AppendOrder ==
  /\ [](\A c \in Calls :
          /\ InLineOrder(results[c].errors)
          /\ InLineOrder(results[c].warnings)
          /\ \A i \in 1..Len(results[c].errors) :
               results[c].errors[i].line = NoLine <=>
                 results[c].errors[i].message.text = UnmatchedText
          /\ \A i \in 1..Len(results[c].warnings) :
               results[c].warnings[i].line = NoLine <=>
                 results[c].warnings[i].message.text = UnusedText)
  /\ [][\A c \in Calls :
          /\ Extends(results'[c].errors, results[c].errors)
          /\ Extends(results'[c].warnings, results[c].warnings)]_vars

\* A returned report whose errors are line-level errors followed by the
\* unmatched-parentheses error, and whose warnings are a line-level warning
\* followed by unused-variable warnings.
AppendOrderWitness ==
  \E c \in Calls :
    /\ pc[c] = "done"
    /\ Len(results[c].errors) >= 3
    /\ results[c].errors[1].line # NoLine
    /\ results[c].errors[Len(results[c].errors)].message.text = UnmatchedText
    /\ Len(results[c].warnings) >= 3
    /\ results[c].warnings[1].line # NoLine
    /\ results[c].warnings[Len(results[c].warnings)].message.text = UnusedText

EmergencyStopText == "Consider implementing emergency stop logic for safety compliance"

\* The entries of a list of diagnostics with the given message text.
WithText(list, text) == SelectSeq(list, LAMBDA d : d.message.text = text)

\* C27: a call has no suggestion while it scans; the returned report holds the
\* suggestion 'Consider implementing emergency stop logic ...' (safety,
\* medium) exactly once when emergencyStop is false at the end of the scan and
\* not at all when it is true; and the step that appends the suggestions
\* leaves isValid, errors, warnings and the three scores as the
\* document-level checks and the score formulas alone make them.
EmergencyStopSuggestion ==
  /\ [](\A c \in Calls :
          /\ pc[c] # "done" => results[c].suggestions = <<>>
          /\ pc[c] = "done" =>
               WithText(results[c].suggestions, EmergencyStopText)
                 = IF results[c].safetyChecks.emergencyStop THEN <<>>
                   ELSE <<[type |-> "info",
                           message |-> [text |-> EmergencyStopText, arg |-> <<>>],
                           line |-> NoLine, severity |-> "medium", category |-> "safety"]>>)
  /\ [][\A c \in Calls :
          (pc[c] = "scan" /\ pc'[c] = "done") =>
            LET plain == Scores(CheckUnused(CheckParens(results[c], braceCount[c]),
                                            declaredVariables[c], usedVariables[c]))
            IN  /\ results'[c].safetyChecks = results[c].safetyChecks
                /\ [results'[c] EXCEPT !.suggestions = <<>>] = plain]_vars

\* A returned report with the suggestion, which has errors and warnings too.
EmergencyStopSuggestionWitness ==
  \E c \in Calls :
    /\ pc[c] = "done"
    /\ ~results[c].safetyChecks.emergencyStop
    /\ Len(WithText(results[c].suggestions, EmergencyStopText)) = 1
    /\ results[c].errors # <<>>
    /\ results[c].warnings # <<>>

LargeProgramText == "Consider breaking large programs into smaller function blocks"

\* The number of lines of a program text: a final newline ends the last line
\* and starts no further one.
ProgramLines(text) ==
  Count(text, "\n") + (IF text = <<>> \/ text[Len(text)] = "\n" THEN 0 ELSE 1)

\* C28 as stated: the returned report holds the suggestion to break the
\* program into smaller function blocks exactly when the program has more than
\* 100 lines; a program of exactly 100 lines, with or without a final newline,
\* does not get it and a program of 101 lines does.
LargeProgramSuggestion ==
  \A c \in Calls :
    pc[c] = "done" =>
      (WithText(results[c].suggestions, LargeProgramText) # <<>>)
        = (ProgramLines(code[c]) > SizeLimit)

\* C30: the report returned for the code of each of the three built-in
\* templates (Motor Start/Stop, Tank Level Control, Conveyor System) has no
\* errors and isValid true.
TemplatesPass ==
  \A c \in Calls :
    (pc[c] = "done" /\ code[c] \in builtInTemplates) =>
      /\ results[c].errors = <<>>
      /\ results[c].isValid

\* The report for the Conveyor System template has been returned: every line
\* scanned, six variables declared, emergencyStop found.
TemplatesPassWitness ==
  \E c \in Calls :
    /\ pc[c] = "done"
    /\ code[c] = ConveyorSystem
    /\ index[c] = Len(lines[c])
    /\ Len(lines[c]) > MaxLines
    /\ Len(declaredVariables[c]) = 6
    /\ results[c].safetyChecks.emergencyStop
    /\ results[c].isValid

\* The text with every upper-case letter replaced by its lower-case letter.
LowerCased(s) ==
  [i \in 1..Len(s) |->
     IF s[i] \in Range(UpperLetters)
       THEN LowerLetters[CHOOSE k \in 1..Len(UpperLetters) : UpperLetters[k] = s[i]]
       ELSE s[i]]

\* The text with the case of every letter inverted.
CaseSwapped(s) ==
  [i \in 1..Len(s) |-> IF s[i] \in LowerSet THEN toUpperCaseChar(s[i]) ELSE LowerCased(<<s[i]>>)[1]]

\* The texts that differ from the text in letter case only.
CaseVariants(text) == {toUpperCase(text), LowerCased(text), CaseSwapped(text)}

\* Category, severity and line number of each entry of a list.
Kinds(list) ==
  [i \in 1..Len(list) |->
     [category |-> list[i].category, severity |-> list[i].severity, line |-> list[i].line]]

\* What of a report does not depend on how names are spelled.
Outline(r) ==
  [isValid |-> r.isValid, errors |-> Kinds(r.errors), warnings |-> Kinds(r.warnings),
   suggestions |-> Kinds(r.suggestions), safetyChecks |-> r.safetyChecks,
   iecCompliance |-> r.iecCompliance, syntaxScore |-> r.syntaxScore,
   logicScore |-> r.logicScore, safetyScore |-> r.safetyScore]

\* C29: the report returned for a text and the report for the same text in
\* another letter case (all upper, all lower, every letter inverted) have the
\* same isValid, the same errors, warnings and suggestions by number,
\* category, severity and line number, the same safety and compliance flags
\* and the same three scores.
CaseInsensitive ==
  \A c \in Calls :
    pc[c] = "done" =>
      \A other \in CaseVariants(code[c]) :
        Outline(performSTValidation(other)) = Outline(results[c])

\* A returned report for a program that declares 'Motor' and assigns 'MOTOR':
\* the variable counts as used.
CaseInsensitiveWitness ==
  \E c \in Calls :
    /\ pc[c] = "done"
    /\ code[c] = MotorCase
    /\ declaredVariables[c] = << <<"M","O","T","O","R">> >>
    /\ usedVariables[c] = << <<"M","O","T","O","R">> >>
    /\ WithText(results[c].warnings, UnusedText) = <<>>
    /\ LowerCased(code[c]) # code[c]
====
